---- MODULE Spec2Model ----
(***************************************************************************)
(* Task generation engine of UpKeep (src/app.py): recurrence calculator,   *)
(* overlap resolver, onboarding ramp and the per-household regeneration of *)
(* the tasks table.                                                        *)
(*                                                                         *)
(* Values of catalog cells.  A cell of a catalog row is what row.get(k)    *)
(* returns: None (absent key or NULL), a text, or a number (a Python int   *)
(* or a text int() accepts).  They are tagged records:                     *)
(*   None     [k |-> "none"]                                               *)
(*   Str(s)   [k |-> "str", s |-> s]                                       *)
(*   Num(n)   [k |-> "int", v |-> n]                                       *)
(*   Bool(b)  [k |-> "bool", b |-> b]    a Python bool                     *)
(* Dates are day numbers counted from January 1st of BaseYear.  ISO date   *)
(* texts of four-digit years compare as their day numbers do.              *)
(***************************************************************************)
EXTENDS Integers, Sequences, FiniteSets, TLC

VARIABLES
  cRow,        \* recurrence calculator: the template row given
  cToday,      \* recurrence calculator: the value of today given
  cDue,        \* recurrence calculator: the date returned
  cDone,       \* recurrence calculator: the call has returned
  oRows,       \* overlap resolver: the list of matched rows given
  oOut,        \* overlap resolver: the list returned (positions in oRows)
  oDone,       \* overlap resolver: the call has returned
  gIn,         \* generation pipeline: catalog, features, today, mode, lookup
  gPlan,       \* generation pipeline: the lists and rows it produced
  gDone,       \* generation pipeline: the pass has ended
  templates,   \* household: the rows of task_templates
  homeFeatures,  \* household: the flags of its home_features row
  userRow,     \* household: its users row, or its absence
  tasks,       \* household: its rows of the tasks table
  nextId,      \* household: the next id the tasks table gives
  clock,       \* household: the current date
  taskKeySupported,  \* the module's TASK_KEY_SUPPORTED flag
  last,        \* household: the last operation and how it went
  mIn,         \* requirement matcher: the features cell and the feature set
  mOut,        \* requirement matcher: the parser's result, and row kept or not
  mDone,       \* requirement matcher: the call has returned
  dIn,         \* two orders: the catalog in two orders, features, today, mode
  dPlan,       \* two orders: the plan made from each of the two orders
  dRan,        \* two orders: which of the two passes have run
  eIn,         \* entry point: catalog sources, features, how inner calls go
  eRet,        \* entry point: the value returned
  eDone,        \* entry point: the call has returned
  runs  \* the generation runs in progress, each with its position and what it read

(***************************************************************************)
(* Bounds of the model.                                                    *)
(***************************************************************************)
BaseYear == 2023
MaxToday == 730
MaxRows == 3
MaxSegs == 3        \* segments of a requirement text

(***************************************************************************)
(* Cell values.                                                            *)
(***************************************************************************)
None == [k |-> "none"]
Str(s) == [k |-> "str", s |-> s]
Num(n) == [k |-> "int", v |-> n]
Bool(b) == [k |-> "bool", b |-> b]

IsNone(val) == val.k = "none"
IsNum(val) == val.k = "int"

\* str.strip().lower() on the texts the model uses.
StripLower(s) ==
  CASE s = " Fixed_Date " -> "fixed_date"
    [] s = "SEASON_START" -> "season_start"
    [] s = " Winter" -> "winter"
    [] s = "TRUE" -> "true"
    [] s = " Yes " -> "yes"
    [] s = "No" -> "no"
    [] s = " gutter_check " -> "gutter_check"
    [] s = " High " -> "high"
    [] s = "Medium" -> "medium"
    [] s = " YES " -> "yes"
    [] s = "False" -> "false"
    [] s = " HVAC " -> "hvac"
    [] s = " Buyer " -> "buyer"
    [] s = "  " -> ""
    [] OTHER -> s

\* str.strip() on the texts the model uses.
Strip(s) ==
  CASE s = " gutter_check " -> "gutter_check"
    [] s = " Fixed_Date " -> "Fixed_Date"
    [] s = " Winter" -> "Winter"
    [] s = " Yes " -> "Yes"
    [] s = " YES " -> "YES"
    [] s = " has_hvac " -> "has_hvac"
    [] s = " High " -> "High"
    [] s = " HVAC " -> "HVAC"
    [] s = "  " -> ""
    [] OTHER -> s

\* (val or '') for a text cell
OrEmpty(val) == IF val.k = "str" THEN val.s ELSE ""

TRUE_WORDS == {"true", "1", "yes", "y"}
FALSE_WORDS == {"false", "0", "no", "n"}

\* str(val).strip().lower() of a cell that is not None
CellText(val) ==
  IF val.k = "str" THEN StripLower(val.s)
  ELSE IF val.k = "bool" THEN (IF val.b THEN "true" ELSE "false")
  ELSE IF val.v = 1 THEN "1" ELSE IF val.v = 0 THEN "0" ELSE "<int>"

\* bool(val)
Truthy(val) ==
  CASE val.k = "none" -> FALSE
    [] val.k = "str" -> val.s # ""
    [] val.k = "int" -> val.v # 0
    [] val.k = "bool" -> val.b

\* val in (None, '')
NoneOrEmpty(val) == val.k = "none" \/ (val.k = "str" /\ val.s = "")

ParseBool(val, default) ==
  IF IsNone(val) THEN default
  ELSE IF CellText(val) \in TRUE_WORDS THEN TRUE
  ELSE IF CellText(val) \in FALSE_WORDS THEN FALSE
  ELSE default

\* default is None or Num(n); the result is None or Num(n)
ParseInt(val, default) ==
  IF IsNum(val) THEN val ELSE default

\* Python's (x or d) on an optional int
IntOr(val, d) == IF IsNum(val) /\ val.v # 0 THEN val.v ELSE d

SeqsUpTo(S, n) == UNION {[1..k -> S] : k \in 0..n}
Range(f) == {f[j] : j \in DOMAIN f}
\* the rows of a list, named by their positions
Refs(store) == [j \in 1..Len(store) |-> j]

Max(a, b) == IF a >= b THEN a ELSE b
Min(a, b) == IF a <= b THEN a ELSE b

(***************************************************************************)
(* The proleptic Gregorian calendar of datetime.date.                      *)
(***************************************************************************)
IsLeap(y) == (y % 4 = 0 /\ y % 100 # 0) \/ y % 400 = 0
DaysInYear(y) == IF IsLeap(y) THEN 366 ELSE 365
DaysInMonth(y, m) ==
  IF m = 2 THEN (IF IsLeap(y) THEN 29 ELSE 28)
  ELSE IF m \in {4, 6, 9, 11} THEN 30 ELSE 31

\* datetime(y, m, d) does not raise ValueError
DateValid(y, m, d) == m \in 1..12 /\ d \in 1..DaysInMonth(y, m)

RECURSIVE DaysBeforeYear(_)
DaysBeforeYear(y) ==
  IF y <= BaseYear THEN 0 ELSE DaysBeforeYear(y - 1) + DaysInYear(y - 1)

RECURSIVE DaysBeforeMonth(_, _)
DaysBeforeMonth(y, m) ==
  IF m <= 1 THEN 0 ELSE DaysBeforeMonth(y, m - 1) + DaysInMonth(y, m - 1)

\* datetime(y, m, d).date() for a valid date
MkDate(y, m, d) == DaysBeforeYear(y) + DaysBeforeMonth(y, m) + (d - 1)

RECURSIVE YearFrom(_, _)
YearFrom(y, n) ==
  IF n < DaysInYear(y) THEN y ELSE YearFrom(y + 1, n - DaysInYear(y))

\* date.year
YearOf(date) == YearFrom(BaseYear, date)

(***************************************************************************)
(* Recurrence calculator.                                                  *)
(***************************************************************************)
DEFAULT_SEASON_STARTS ==
  [winter |-> <<12, 1>>, spring |-> <<3, 1>>, summer |-> <<6, 1>>,
   autumn |-> <<9, 1>>]

\* the except ValueError branch
AnchorFallback(month, today) ==
  IF month = 2 THEN MkDate(YearOf(today), 2, 28) ELSE today + 365

\* NextAnchorDate with "this_year > today": an anchor that falls on today rolls over
NextAnchorDate_StrictlyAfter(month, day, today) ==
  LET y == YearOf(today) IN
  IF ~DateValid(y, month, day) THEN AnchorFallback(month, today)
  ELSE IF MkDate(y, month, day) > today THEN MkDate(y, month, day)
  ELSE IF ~DateValid(y + 1, month, day) THEN AnchorFallback(month, today)
  ELSE MkDate(y + 1, month, day)

NextAnchorDate(month, day, today) ==
  LET y == YearOf(today) IN
  IF ~DateValid(y, month, day) THEN AnchorFallback(month, today)
  ELSE IF MkDate(y, month, day) >= today THEN MkDate(y, month, day)
  ELSE IF ~DateValid(y + 1, month, day) THEN AnchorFallback(month, today)
  ELSE MkDate(y + 1, month, day)

SeasonalFallbackDue(row, today) ==
  today + Max(1, IntOr(ParseInt(row.frequency_days, Num(365)), 365))

\* NonSeasonalDue with the frequency looked at before the start offset
NonSeasonalDue_FrequencyFirst(row, today) ==
  LET offset == ParseInt(row.start_offset_days, None) IN
  IF IsNum(row.frequency_days) \/ IsNone(offset)
    THEN today + Max(1, IntOr(ParseInt(row.frequency_days, Num(30)), 30))
    ELSE today + Max(0, offset.v)

NonSeasonalDue(row, today) ==
  LET offset == ParseInt(row.start_offset_days, None) IN
  IF ~IsNone(offset) THEN today + Max(0, offset.v)
  ELSE today + Max(1, IntOr(ParseInt(row.frequency_days, Num(30)), 30))

ComputeNextDueDate(row, today) ==
  IF ParseBool(row.seasonal, FALSE) THEN
    LET anchor_type == StripLower(OrEmpty(row.seasonal_anchor_type))
        m == ParseInt(row.season_anchor_month, None)
        d == ParseInt(row.season_anchor_day, None)
        code == StripLower(OrEmpty(row.season_code))
    IN IF anchor_type = "fixed_date" /\ IntOr(m, 0) # 0 /\ IntOr(d, 0) # 0
         THEN NextAnchorDate(m.v, d.v, today)
       ELSE IF anchor_type = "season_start"
                 /\ code \in DOMAIN DEFAULT_SEASON_STARTS
         THEN NextAnchorDate(DEFAULT_SEASON_STARTS[code][1],
                             DEFAULT_SEASON_STARTS[code][2], today)
       ELSE SeasonalFallbackDue(row, today)
  ELSE NonSeasonalDue(row, today)

(***************************************************************************)
(* Catalog rows.  A row is a dict; row.get(k) of an absent key is None.    *)
(***************************************************************************)
BlankRow ==
  [task_key |-> None, title |-> None, frequency_days |-> None,
   category |-> None, priority |-> None, feature_requirements |-> None,
   start_offset_days |-> None, seasonal |-> None,
   seasonal_anchor_type |-> None, season_code |-> None,
   season_anchor_month |-> None, season_anchor_day |-> None,
   overlap_group |-> None, variant_rank |-> None, safety_critical |-> None]

(***************************************************************************)
(* Overlap resolver.  by_group is a dict: a list of (key, row) entries in  *)
(* insertion order; assigning to a key that is present keeps its place.    *)
(* A row is named by its position in the list given, which stands for the  *)
(* identity of the dict object (id(r) in the key of an ungrouped row).     *)
(***************************************************************************)
GroupKey(group) == [g |-> group, u |-> 0]
UniqueKey(i) == [g |-> "__unique__", u |-> i]

DictHas(dict, key) == \E j \in 1..Len(dict) : dict[j].key = key
DictGet(dict, key) ==
  dict[CHOOSE j \in 1..Len(dict) : dict[j].key = key].ref
DictSet(dict, key, ref) ==
  IF DictHas(dict, key)
    THEN [j \in 1..Len(dict) |->
            IF dict[j].key = key THEN [key |-> key, ref |-> ref] ELSE dict[j]]
    ELSE Append(dict, [key |-> key, ref |-> ref])

DEFAULT_RANK == 999999

RankOf(row) == ParseInt(row.variant_rank, Num(DEFAULT_RANK)).v

\* the test that lets row r take the place of the current entry of its group
Outranks(cur, rank) == RankOf(cur) > rank

RECURSIVE ResolveFrom(_, _, _, _)
ResolveFrom(store, refs, i, by_group) ==
  IF i > Len(refs) THEN by_group
  ELSE
    LET r == refs[i]
        group == Strip(OrEmpty(store[r].overlap_group))
    IN IF group = ""
         THEN ResolveFrom(store, refs, i + 1,
                          DictSet(by_group, UniqueKey(r), r))
       ELSE IF ~DictHas(by_group, GroupKey(group))
                 \/ Outranks(store[DictGet(by_group, GroupKey(group))],
                             RankOf(store[r]))
         THEN ResolveFrom(store, refs, i + 1,
                          DictSet(by_group, GroupKey(group), r))
       ELSE ResolveFrom(store, refs, i + 1, by_group)

\* a resolver that returns the list it was given
ResolveOverlaps_KeepAll(store, refs) == refs

\* list(by_group.values())
ResolveOverlaps(store, refs) ==
  LET by_group == ResolveFrom(store, refs, 1, <<>>)
  IN [j \in 1..Len(by_group) |-> by_group[j].ref]

(***************************************************************************)
(* Titles.  A title is the tuple of its characters, so that the keyword    *)
(* tests of the enricher ("k in t_low") are substring searches.            *)
(***************************************************************************)
\* "Test Smoke Detectors"
T_TestSmoke == <<"T", "e", "s", "t", " ", "S", "m", "o", "k", "e", " ",
   "D", "e", "t", "e", "c", "t", "o", "r", "s">>
\* "Replace HVAC Filter"
T_ReplaceFilter == <<"R", "e", "p", "l", "a", "c", "e", " ", "H", "V", "A",
   "C", " ", "F", "i", "l", "t", "e", "r">>
\* " Clean Gutters "
T_CleanGutters == <<" ", "C", "l", "e", "a", "n", " ", "G", "u", "t", "t",
   "e", "r", "s", " ">>
\* "Flush Water Heater"
T_FlushHeater == <<"F", "l", "u", "s", "h", " ", "W", "a", "t", "e", "r",
   " ", "H", "e", "a", "t", "e", "r">>
\* "Check and Replace Fire Extinguisher Alarm"
T_ReplaceExtinguisher == <<"C", "h", "e", "c", "k", " ", "a", "n", "d",
   " ", "R", "e", "p", "l", "a", "c", "e", " ", "F", "i", "r", "e", " ",
   "E", "x", "t", "i", "n", "g", "u", "i", "s", "h", "e", "r", " ", "A",
   "l", "a", "r", "m">>
\* "Winterize Sprinklers"
T_Winterize == <<"W", "i", "n", "t", "e", "r", "i", "z", "e", " ", "S",
   "p", "r", "i", "n", "k", "l", "e", "r", "s">>
\* "  "
T_Blank == <<" ", " ">>

ModelTitles ==
  {T_TestSmoke, T_ReplaceFilter, T_CleanGutters,
   T_FlushHeater, T_ReplaceExtinguisher, T_Winterize, T_Blank}

UpperToLower == [A |-> "a", B |-> "b", C |-> "c", D |-> "d", E |-> "e",
   F |-> "f", G |-> "g", H |-> "h", I |-> "i", J |-> "j", K |-> "k",
   L |-> "l", M |-> "m", N |-> "n", O |-> "o", P |-> "p", Q |-> "q",
   R |-> "r", S |-> "s", T |-> "t", U |-> "u", V |-> "v", W |-> "w",
   X |-> "x", Y |-> "y", Z |-> "z"]

LowerChar(c) == IF c \in DOMAIN UpperToLower THEN UpperToLower[c] ELSE c

\* str.lower()
LowerText(t) == [j \in 1..Len(t) |-> LowerChar(t[j])]

RECURSIVE StripLeft(_)
StripLeft(t) == IF t # <<>> /\ Head(t) = " " THEN StripLeft(Tail(t)) ELSE t

RECURSIVE StripRight(_)
StripRight(t) ==
  IF t # <<>> /\ t[Len(t)] = " " THEN StripRight(SubSeq(t, 1, Len(t) - 1))
  ELSE t

\* str.strip()
StripText(t) == StripRight(StripLeft(t))

\* k in t
Contains(t, k) ==
  \E j \in 1..(Len(t) - Len(k) + 1) : SubSeq(t, j, j + Len(k) - 1) = k

\* the keywords of _enrich_task_rows_defaults
K_smoke_detector == <<"s", "m", "o", "k", "e", " ", "d", "e", "t", "e", "c", "t", "o", "r">>
K_carbon_monoxide == <<"c", "a", "r", "b", "o", "n", " ", "m", "o", "n", "o", "x", "i", "d", "e">>
K_co_detector == <<"c", "o", " ", "d", "e", "t", "e", "c", "t", "o", "r">>
K_gfi == <<"g", "f", "i">>
K_gfci == <<"g", "f", "c", "i">>
K_alarm == <<"a", "l", "a", "r", "m">>
K_natural_gas == <<"n", "a", "t", "u", "r", "a", "l", " ", "g", "a", "s">>
K_leak == <<"l", "e", "a", "k">>
K_dryer_vent == <<"d", "r", "y", "e", "r", " ", "v", "e", "n", "t">>
K_shutoff == <<"s", "h", "u", "t", "o", "f", "f">>
K_sump_pump == <<"s", "u", "m", "p", " ", "p", "u", "m", "p">>
K_test == <<"t", "e", "s", "t">>
K_check == <<"c", "h", "e", "c", "k">>
K_inspect == <<"i", "n", "s", "p", "e", "c", "t">>
K_filter == <<"f", "i", "l", "t", "e", "r">>
K_furnace == <<"f", "u", "r", "n", "a", "c", "e">>
K_air_handler == <<"a", "i", "r", " ", "h", "a", "n", "d", "l", "e", "r">>
K_ac_ == <<"a", "c", " ">>
K_a_c == <<"a", "/", "c">>
K_condenser == <<"c", "o", "n", "d", "e", "n", "s", "e", "r">>
K_registers == <<"r", "e", "g", "i", "s", "t", "e", "r", "s">>
K_water_heater == <<"w", "a", "t", "e", "r", " ", "h", "e", "a", "t", "e", "r">>
K_sink == <<"s", "i", "n", "k">>
K_toilet == <<"t", "o", "i", "l", "e", "t">>
K_softener == <<"s", "o", "f", "t", "e", "n", "e", "r">>
K_septic == <<"s", "e", "p", "t", "i", "c">>
K_sump == <<"s", "u", "m", "p">>
K_dishwasher == <<"d", "i", "s", "h", "w", "a", "s", "h", "e", "r">>
K_range_hood == <<"r", "a", "n", "g", "e", " ", "h", "o", "o", "d">>
K_refrigerator == <<"r", "e", "f", "r", "i", "g", "e", "r", "a", "t", "o", "r">>
K_garbage_disposal == <<"g", "a", "r", "b", "a", "g", "e", " ", "d", "i", "s", "p", "o", "s", "a", "l">>
K_gutters == <<"g", "u", "t", "t", "e", "r", "s">>
K_downspout == <<"d", "o", "w", "n", "s", "p", "o", "u", "t">>
K_deck == <<"d", "e", "c", "k">>
K_patio == <<"p", "a", "t", "i", "o">>
K_fence == <<"f", "e", "n", "c", "e">>
K_garage_door == <<"g", "a", "r", "a", "g", "e", " ", "d", "o", "o", "r">>
K_roof == <<"r", "o", "o", "f">>
K_masonry == <<"m", "a", "s", "o", "n", "r", "y">>
K_brick == <<"b", "r", "i", "c", "k">>
K_smoke == <<"s", "m", "o", "k", "e">>
K_co_ == <<"c", "o", " ">>
K_extinguisher == <<"e", "x", "t", "i", "n", "g", "u", "i", "s", "h", "e", "r">>
K_fire_ == <<"f", "i", "r", "e", " ">>
K_dryer == <<"d", "r", "y", "e", "r">>
K_lint == <<"l", "i", "n", "t">>
K_washer == <<"w", "a", "s", "h", "e", "r">>
K_replace == <<"r", "e", "p", "l", "a", "c", "e">>
K_winterize == <<"w", "i", "n", "t", "e", "r", "i", "z", "e">>
K_spring == <<"s", "p", "r", "i", "n", "g">>
K_fall_ == <<"f", "a", "l", "l", " ">>
K_autumn == <<"a", "u", "t", "u", "m", "n">>

SAFETY_SURFACES == <<K_smoke_detector, K_carbon_monoxide, K_co_detector,
   K_gfi, K_gfci, K_alarm, K_natural_gas, K_leak, K_dryer_vent, K_shutoff,
   K_sump_pump>>
SAFETY_ACTION_TESTS == <<K_test, K_check, K_inspect>>
\* in the order of the dict
CATEGORY_MAP ==
  << [name |-> "hvac",
      keys |-> <<K_filter, K_furnace, K_air_handler, K_ac_, K_a_c, K_condenser, K_registers>>],
     [name |-> "plumbing",
      keys |-> <<K_water_heater, K_sink, K_toilet, K_leak, K_softener, K_septic, K_sump, K_shutoff>>],
     [name |-> "kitchen",
      keys |-> <<K_dishwasher, K_range_hood, K_refrigerator, K_garbage_disposal>>],
     [name |-> "exterior",
      keys |-> <<K_gutters, K_downspout, K_deck, K_patio, K_fence, K_garage_door, K_roof, K_masonry, K_brick>>],
     [name |-> "safety",
      keys |-> <<K_smoke, K_co_, K_carbon_monoxide, K_alarm, K_extinguisher, K_gfi, K_gfci, K_fire_>>],
     [name |-> "laundry",
      keys |-> <<K_dryer, K_lint, K_washer>>] >>

AllKeywords ==
  Range(SAFETY_SURFACES) \cup Range(SAFETY_ACTION_TESTS)
    \cup UNION {Range(CATEGORY_MAP[j].keys) : j \in 1..Len(CATEGORY_MAP)}
    \cup {K_replace, K_extinguisher, K_filter, K_gutters, K_winterize,
          K_spring, K_fall_, K_autumn}

\* for each title of the model, the keywords k with
\* k in (title or '').strip().lower()
TitleKeywords ==
  [t \in ModelTitles |->
     {k \in AllKeywords : Contains(LowerText(StripText(t)), k)}]

\* k in t_low, for the row's title
InTitle(row, k) == row.title.k = "str" /\ k \in TitleKeywords[row.title.s]
AnyInTitle(row, keys) == \E j \in 1..Len(keys) : InTitle(row, keys[j])

(***************************************************************************)
(* Requirement parser and feature matcher.  A requirement text is the list *)
(* of its segments between ';'; a segment is [key, eq, value]: the text    *)
(* before its first '=', whether it has an '=', and the text after it.     *)
(***************************************************************************)
Seg(key, value) == [key |-> key, eq |-> TRUE, value |-> value]
Bare(text) == [key |-> text, eq |-> FALSE, value |-> ""]
Req(segs) == [k |-> "req", segs |-> segs]

FEATURE_KEY_ALIASES ==
  [has_disposal |-> "has_garbage_disposal", has_washer |-> "has_washer_dryer",
   has_smoke_dectectors |-> "has_smoke_detectors", has_outdoor |-> "has_yard",
   has_deck |-> "has_deck_patio"]

ALLOWED_FEATURE_KEYS ==
  {"has_hvac", "has_gutters", "has_dishwasher", "has_smoke_detectors",
   "has_water_heater", "has_water_softener", "has_garbage_disposal",
   "has_washer_dryer", "has_sump_pump", "has_well", "has_fireplace",
   "has_septic", "has_garage", "has_window_units", "has_radiator_boiler",
   "no_central_hvac", "has_refrigerator_ice", "has_range_hood",
   "has_deck_patio", "has_pool_hot_tub", "freezes", "has_pets", "pet_dog",
   "pet_cat", "pet_other", "travel_often", "has_yard", "has_carpet",
   "has_outdoor", "has_deck"}

Canonical(key) ==
  IF key \in DOMAIN FEATURE_KEY_ALIASES THEN FEATURE_KEY_ALIASES[key] ELSE key

\* the segment is p.strip() == '' and is dropped by the split
SegEmpty(seg) == ~seg.eq /\ Strip(seg.key) = ""

\* a parser that reads the value of a pair before it looks at the key
RECURSIVE ParseSegments_ValueFirst(_, _, _)
ParseSegments_ValueFirst(segs, i, acc) ==
  IF i > Len(segs) THEN acc
  ELSE
    LET seg == segs[i]
        key == Canonical(Strip(seg.key))
        text == StripLower(seg.value)
    IN IF SegEmpty(seg) THEN ParseSegments_ValueFirst(segs, i + 1, acc)
       ELSE IF ~seg.eq
         THEN ParseSegments_ValueFirst(segs, i + 1,
                [acc EXCEPT !.errors =
                   Append(@, [seg |-> i, what |-> "expected key=value"])])
       ELSE IF text \notin TRUE_WORDS \cup FALSE_WORDS
         THEN ParseSegments_ValueFirst(segs, i + 1,
                [acc EXCEPT !.errors =
                   Append(@, [seg |-> i, what |-> "invalid boolean"])])
       ELSE IF key \notin ALLOWED_FEATURE_KEYS
         THEN ParseSegments_ValueFirst(segs, i + 1, acc)
       ELSE ParseSegments_ValueFirst(segs, i + 1,
              [acc EXCEPT !.req = (key :> (text \in TRUE_WORDS)) @@ @])

RECURSIVE ParseSegments(_, _, _)
ParseSegments(segs, i, acc) ==
  IF i > Len(segs) THEN acc
  ELSE
    LET seg == segs[i]
        key == Canonical(Strip(seg.key))
        text == StripLower(seg.value)
    IN IF SegEmpty(seg) THEN ParseSegments(segs, i + 1, acc)
       ELSE IF ~seg.eq
         THEN ParseSegments(segs, i + 1,
                [acc EXCEPT !.errors =
                   Append(@, [seg |-> i, what |-> "expected key=value"])])
       ELSE IF key \notin ALLOWED_FEATURE_KEYS
         THEN ParseSegments(segs, i + 1, acc)
       ELSE IF text \notin TRUE_WORDS \cup FALSE_WORDS
         THEN ParseSegments(segs, i + 1,
                [acc EXCEPT !.errors =
                   Append(@, [seg |-> i, what |-> "invalid boolean"])])
       ELSE ParseSegments(segs, i + 1,
              [acc EXCEPT !.req = (key :> (text \in TRUE_WORDS)) @@ @])

\* _parse_feature_requirements: [req |-> the dict, errors |-> the list]
ParseFeatureRequirements(cell) ==
  IF cell.k # "req" THEN [req |-> <<>>, errors |-> <<>>]
  ELSE ParseSegments(cell.segs, 1, [req |-> <<>>, errors |-> <<>>])

\* features.get(k, False), as a bool
FeatureOn(features, key) ==
  IF key \in DOMAIN features THEN features[key] = TRUE ELSE FALSE

\* features.get('carpet', '') in ('yes', 'some')
CarpetOn(features) ==
  IF "carpet" \in DOMAIN features
    THEN features["carpet"] \in {"yes", "some"} ELSE FALSE

\* the matcher without the exclusion of rows that have parse errors
RowMatches_IgnoreErrors(row, features) ==
  LET parsed == ParseFeatureRequirements(row.feature_requirements)
  IN \A key \in DOMAIN parsed.req :
       IF key = "has_carpet"
         THEN CarpetOn(features) = parsed.req[key]
         ELSE FeatureOn(features, key) = parsed.req[key]

RowMatches(row, features) ==
  LET parsed == ParseFeatureRequirements(row.feature_requirements)
  IN /\ parsed.errors = <<>>
     /\ \A key \in DOMAIN parsed.req :
          IF key = "has_carpet"
            THEN CarpetOn(features) = parsed.req[key]
            ELSE FeatureOn(features, key) = parsed.req[key]

\* _filter_rows_by_features: the positions of the rows kept, in order
FilterRowsByFeatures(store, features) ==
  LET Keep(r) == RowMatches(store[r], features)
  IN SelectSeq(Refs(store), Keep)

(***************************************************************************)
(* Default enricher (mutates the rows of the list in place).               *)
(***************************************************************************)
EnrichSafety(row) ==
  LET first ==
        IF NoneOrEmpty(row.safety_critical)
          THEN Bool(AnyInTitle(row, SAFETY_SURFACES)
                      /\ AnyInTitle(row, SAFETY_ACTION_TESTS))
          ELSE row.safety_critical
  IN IF InTitle(row, K_replace) /\ InTitle(row, K_extinguisher)
       THEN Bool(FALSE) ELSE first

\* row already holds its safety_critical
EnrichPriority(row) ==
  IF StripLower(OrEmpty(row.priority)) # "" THEN row.priority
  ELSE IF Truthy(row.safety_critical) THEN Str("high")
  ELSE IF InTitle(row, K_filter) \/ InTitle(row, K_gutters) THEN Str("medium")
  ELSE None

EnrichCategory(row) ==
  IF StripLower(OrEmpty(row.category)) # "" THEN row.category
  ELSE IF \E j \in 1..Len(CATEGORY_MAP) : AnyInTitle(row, CATEGORY_MAP[j].keys)
    THEN Str(CATEGORY_MAP[CHOOSE j \in 1..Len(CATEGORY_MAP) :
                 /\ AnyInTitle(row, CATEGORY_MAP[j].keys)
                 /\ \A h \in 1..(j - 1) :
                      ~AnyInTitle(row, CATEGORY_MAP[h].keys)].name)
  ELSE row.category

EnrichSeasonal(row) ==
  IF ~NoneOrEmpty(row.seasonal) THEN row.seasonal
  ELSE IF \/ Strip(OrEmpty(row.season_code)) # ""
          \/ Strip(OrEmpty(row.seasonal_anchor_type)) # ""
          \/ InTitle(row, K_winterize) \/ InTitle(row, K_spring)
          \/ InTitle(row, K_fall_) \/ InTitle(row, K_autumn)
    THEN Bool(TRUE)
  ELSE row.seasonal

EnrichRow(row) ==
  LET r1 == [row EXCEPT !.safety_critical = EnrichSafety(row)]
      r2 == [r1 EXCEPT !.priority = EnrichPriority(r1)]
      r3 == [r2 EXCEPT !.category = EnrichCategory(r2)]
  IN [r3 EXCEPT !.seasonal = EnrichSeasonal(r3)]

\* _enrich_task_rows_defaults on the rows refs names: the store after it
EnrichTaskRowsDefaults(store, refs) ==
  [j \in 1..Len(store) |->
     IF j \in Range(refs) THEN EnrichRow(store[j]) ELSE store[j]]

(***************************************************************************)
(* Onboarding ramp.  The rows are dicts mutated in place: store is the     *)
(* heap of rows, a list holds positions of store.  "r in list" and         *)
(* list.remove(r) compare dicts by their contents.                         *)
(***************************************************************************)
RAMP_SETTINGS ==
  [enabled |-> TRUE, near_term_days |-> 21, initial_cap |-> 5,
   stagger_weeks |-> 12]

PERSONA_CAPS ==
  [buyer |-> [initial_cap |-> 4, per_day_cap |-> 2, stagger_weeks |-> 12,
              near_term_days |-> 21],
   catching_up |-> [initial_cap |-> 6, per_day_cap |-> 3,
                    stagger_weeks |-> 10, near_term_days |-> 21],
   on_top |-> [initial_cap |-> 8, per_day_cap |-> 3, stagger_weeks |-> 8,
               near_term_days |-> 21]]

\* The users row of the household as the persona query returns it:
\*   [res |-> "error"]    the query raises
\*   [res |-> "missing"]  no row (ures.data is empty)
\*   [res |-> "found", persona |-> cell, budget |-> cell]
\* per_day_cap is assigned only when a row is found or the query raises:
\* bound says whether the local variable has a value.
RampDefaults ==
  [near_term_days |-> RAMP_SETTINGS.near_term_days,
   initial_cap |-> RAMP_SETTINGS.initial_cap,
   stagger_weeks |-> Max(1, RAMP_SETTINGS.stagger_weeks),
   per_day_cap |-> 0, bound |-> FALSE]

BudgetAdjust(cfg, budget) ==
  IF ~IsNum(budget) THEN cfg
  ELSE IF budget.v <= 30
    THEN [cfg EXCEPT !.initial_cap = Max(3, @ - 1),
                     !.stagger_weeks = Max(@, 12),
                     !.per_day_cap = 2]
  ELSE IF budget.v >= 120
    THEN [cfg EXCEPT !.initial_cap = Min(10, @ + 1),
                     !.per_day_cap = Min(4, @ + 1)]
  ELSE cfg

RampConfig(lookup) ==
  IF lookup.res = "error"
    THEN [RampDefaults EXCEPT !.per_day_cap = 3, !.bound = TRUE]
  ELSE IF lookup.res = "missing" THEN RampDefaults
  ELSE
    LET persona == StripLower(OrEmpty(lookup.persona))
        base ==
          IF persona \in DOMAIN PERSONA_CAPS
            THEN [near_term_days |-> PERSONA_CAPS[persona].near_term_days,
                  initial_cap |-> PERSONA_CAPS[persona].initial_cap,
                  stagger_weeks |-> PERSONA_CAPS[persona].stagger_weeks,
                  per_day_cap |-> PERSONA_CAPS[persona].per_day_cap,
                  bound |-> TRUE]
            ELSE [RampDefaults EXCEPT !.per_day_cap = 3, !.bound = TRUE]
    IN BudgetAdjust(base, lookup.budget)

\* int(r.get('frequency_days') or 0), 0 when int() raises
FreqDays(row) == IF IsNum(row.frequency_days) THEN row.frequency_days.v ELSE 0

IsSafety(row) == ParseBool(row.safety_critical, FALSE)
IsSeasonal(row) == ParseBool(row.seasonal, FALSE)
DaysOut(row, today) == ComputeNextDueDate(row, today) - today
HasOffset(row) == ~IsNone(ParseInt(row.start_offset_days, None))

Score(row, today, near_term_days) ==
  (IF IsSafety(row) THEN 100 ELSE 0)
  + (IF StripLower(OrEmpty(row.priority)) = "high" THEN 20
     ELSE IF StripLower(OrEmpty(row.priority)) = "medium" THEN 10 ELSE 0)
  + (IF IsSeasonal(row) /\ DaysOut(row, today) <= near_term_days
       THEN 15 ELSE 0)

\* the sort key (-score, days_out): a comes strictly before b
SortsBefore(a, b) ==
  a.score > b.score \/ (a.score = b.score /\ a.days_out < b.days_out)

\* list.sort is stable: x goes before the first entry it sorts before
InsertSorted(sorted, x) ==
  IF \E j \in 1..Len(sorted) : SortsBefore(x, sorted[j])
    THEN LET at == CHOOSE j \in 1..Len(sorted) :
                     /\ SortsBefore(x, sorted[j])
                     /\ \A h \in 1..(j - 1) : ~SortsBefore(x, sorted[h])
         IN SubSeq(sorted, 1, at - 1) \o <<x>> \o SubSeq(sorted, at, Len(sorted))
    ELSE Append(sorted, x)

RECURSIVE SortScored(_, _, _)
SortScored(items, i, sorted) ==
  IF i > Len(items) THEN sorted
  ELSE SortScored(items, i + 1, InsertSorted(sorted, items[i]))

\* the scored list, sorted, as the list of its rows
ScoredOrder(store, refs, today, near_term_days) ==
  LET items == [j \in 1..Len(refs) |->
                  [ref |-> refs[j],
                   score |-> Score(store[refs[j]], today, near_term_days),
                   days_out |-> DaysOut(store[refs[j]], today)]]
      sorted == SortScored(items, 1, <<>>)
  IN [j \in 1..Len(sorted) |-> sorted[j].ref]

\* r in list
ListHas(store, list, r) == \E j \in 1..Len(list) : store[list[j]] = store[r]

\* list.remove(r), for a list that has r
ListRemove(store, list, r) ==
  LET at == CHOOSE j \in 1..Len(list) :
              /\ store[list[j]] = store[r]
              /\ \A h \in 1..(j - 1) : store[list[h]] # store[r]
  IN SubSeq(list, 1, at - 1) \o SubSeq(list, at + 1, Len(list))

SetOffset(store, r, n) == [store EXCEPT ![r].start_offset_days = Num(n)]

\* "Keep all safety immediate"
RampPartition(store, scored) ==
  LET Safe(r) == IsSafety(store[r])
      Unsafe(r) == ~IsSafety(store[r])
  IN [store |-> store, immediate |-> SelectSeq(scored, Safe),
      later |-> SelectSeq(scored, Unsafe)]

RECURSIVE PullNearTerm(_, _, _)
PullNearTerm(st, near_term, i) ==
  IF i > Len(near_term) THEN st
  ELSE IF ListHas(st.store, st.later, near_term[i])
    THEN PullNearTerm(
           [st EXCEPT !.later = ListRemove(st.store, @, near_term[i]),
                      !.immediate = Append(@, near_term[i])],
           near_term, i + 1)
  ELSE PullNearTerm(st, near_term, i + 1)

\* "Pull near-term seasonal into immediate"
RampNearTerm(st, today, near_term_days) ==
  LET Near(r) == /\ IsSeasonal(st.store[r])
                 /\ DaysOut(st.store[r], today) <= near_term_days
  IN PullNearTerm(st, SelectSeq(st.later, Near), 1)

\* "Defer long-interval tasks explicitly on first seed": snapshot is
\* list(immediate); the result carries the list deferred
RECURSIVE DeferMultiYear(_, _, _, _)
DeferMultiYear(st, snapshot, i, deferred) ==
  IF i > Len(snapshot)
    THEN [st EXCEPT !.later = @ \o deferred]
  ELSE
    LET r == snapshot[i]
        row == st.store[r]
    IN IF FreqDays(row) >= 365 * 2 /\ ~IsSafety(row)
         THEN LET store2 ==
                    SetOffset(st.store, r,
                      Max(IntOr(ParseInt(row.start_offset_days, Num(0)), 0),
                          180))
              IN DeferMultiYear(
                   [st EXCEPT !.store = store2,
                              !.immediate = ListRemove(store2, @, r)],
                   snapshot, i + 1, Append(deferred, r))
       ELSE DeferMultiYear(st, snapshot, i + 1, deferred)

\* "Hard defer on first seed"
RECURSIVE HardDefer(_, _, _)
HardDefer(st, snapshot, i) ==
  IF i > Len(snapshot) THEN st
  ELSE
    LET r == snapshot[i]
        row == st.store[r]
    IN IF FreqDays(row) >= 365 /\ ~IsSeasonal(row) /\ ~HasOffset(row)
         THEN HardDefer([st EXCEPT !.store = SetOffset(@, r, 90)],
                        snapshot, i + 1)
       ELSE HardDefer(st, snapshot, i + 1)

\* a fill that also takes the tasks of a year or more
RECURSIVE FillImmediate_AnyInterval(_, _, _, _)
FillImmediate_AnyInterval(st, scored, i, remaining_slots) ==
  IF i > Len(scored) THEN st
  ELSE
    LET r == scored[i]
    IN IF ListHas(st.store, st.immediate, r)
         THEN FillImmediate_AnyInterval(st, scored, i + 1, remaining_slots)
       ELSE IF remaining_slots <= 0 THEN st
       ELSE FillImmediate_AnyInterval(
              [st EXCEPT !.immediate = Append(@, r),
                         !.later = IF ListHas(st.store, @, r)
                                     THEN ListRemove(st.store, @, r) ELSE @],
              scored, i + 1, remaining_slots - 1)

\* "Fill remaining immediate up to total cap"
RECURSIVE FillImmediate(_, _, _, _)
FillImmediate(st, scored, i, remaining_slots) ==
  IF i > Len(scored) THEN st
  ELSE
    LET r == scored[i]
        row == st.store[r]
    IN IF ListHas(st.store, st.immediate, r)
         THEN FillImmediate(st, scored, i + 1, remaining_slots)
       ELSE IF remaining_slots <= 0 THEN st
       ELSE IF FreqDays(row) >= 365 /\ ~IsSafety(row)
         THEN FillImmediate(st, scored, i + 1, remaining_slots)
       ELSE FillImmediate(
              [st EXCEPT !.immediate = Append(@, r),
                         !.later = IF ListHas(st.store, @, r)
                                     THEN ListRemove(st.store, @, r) ELSE @],
              scored, i + 1, remaining_slots - 1)

\* len(later) // stagger_weeks + (1 if len(later) % stagger_weeks else 0)
PerWeek(n, stagger_weeks) ==
  Max(1, (n \div stagger_weeks) + (IF n % stagger_weeks # 0 THEN 1 ELSE 0))

\* "Stagger the rest across weeks"
RECURSIVE StaggerLater(_, _, _, _, _, _)
StaggerLater(store, later, i, week, count, per_week) ==
  IF i > Len(later) THEN store
  ELSE
    LET r == later[i]
        store2 == IF HasOffset(store[r]) THEN store
                  ELSE SetOffset(store, r, 7 * week)
        full == count + 1 >= per_week
    IN StaggerLater(store2, later, i + 1,
                    IF full THEN week + 1 ELSE week,
                    IF full THEN 0 ELSE count + 1, per_week)

\* "Distribute immediate tasks across first week using per-day caps"
\* the distribution without the clamp to day 6
RECURSIVE DistributeImmediate_Unclamped(_, _, _, _, _, _)
DistributeImmediate_Unclamped(store, immediate, i, day_cursor, daily_count, cap) ==
  IF i > Len(immediate) THEN store
  ELSE
    LET r == immediate[i]
        roll == daily_count >= cap
        day == IF roll THEN day_cursor + 1 ELSE day_cursor
        n == IF roll THEN 0 ELSE daily_count
        store2 == IF HasOffset(store[r]) THEN store
                  ELSE SetOffset(store, r, Max(0, day))
    IN DistributeImmediate_Unclamped(store2, immediate, i + 1, day, n + 1, cap)

RECURSIVE DistributeImmediate(_, _, _, _, _, _)
DistributeImmediate(store, immediate, i, day_cursor, daily_count, cap) ==
  IF i > Len(immediate) THEN store
  ELSE
    LET r == immediate[i]
        roll == daily_count >= cap
        day == IF roll THEN day_cursor + 1 ELSE day_cursor
        n == IF roll THEN 0 ELSE daily_count
        store2 == IF HasOffset(store[r]) THEN store
                  ELSE SetOffset(store, r, Min(6, Max(0, day)))
    IN DistributeImmediate(store2, immediate, i + 1, day, n + 1, cap)

\* "Distribute immediate tasks across first week": per_day_cap is read
\* here, and reading it raises NameError when no branch has assigned it
RampDistribute(store, immediate, cfg) ==
  IF immediate # <<>> /\ ~cfg.bound
    THEN [raised |-> TRUE, store |-> store]
    ELSE [raised |-> FALSE,
          store |-> DistributeImmediate(store, immediate, 1, 0, 0,
                                        cfg.per_day_cap)]

RampStagger(st, cfg) ==
  RampDistribute(StaggerLater(st.store, st.later, 1, 0, 0,
                              PerWeek(Len(st.later), cfg.stagger_weeks)),
                 st.immediate, cfg)

\* remaining_slots = max(0, initial_cap - len(immediate)), then the fill
RampFill(st, scored, cfg) ==
  FillImmediate(st, scored, 1, Max(0, cfg.initial_cap - Len(st.immediate)))

\* for r in list(later)
RampHardDefer(st) == HardDefer(st, st.later, 1)

\* for r in list(immediate)
RampDefer(st) == DeferMultiYear(st, st.immediate, 1, <<>>)

\* the immediate and the later list as the fill step leaves them, and the
\* rows as they are then
RampLists(store, scored, today, cfg) ==
  RampFill(RampHardDefer(RampDefer(
             RampNearTerm(RampPartition(store, scored), today,
                          cfg.near_term_days))),
           scored, cfg)

RampScored(store, scored, today, cfg) ==
  RampStagger(RampLists(store, scored, today, cfg), cfg)

RampWith(store, refs, today, cfg) ==
  RampScored(store, ScoredOrder(store, refs, today, cfg.near_term_days),
             today, cfg)

\* _apply_onboarding_ramp: [raised, store].  raised: the function raises
\* NameError on per_day_cap.
ApplyOnboardingRamp(store, refs, today, first_seed, lookup) ==
  IF ~first_seed \/ ~RAMP_SETTINGS.enabled
    THEN [raised |-> FALSE, store |-> store]
    ELSE RampWith(store, refs, today, RampConfig(lookup))

(***************************************************************************)
(* Generation orchestrator, from the filter to the list handed to          *)
(* _insert_tasks_for_user (seed_tasks_from_catalog_rows, lines 2256-2278). *)
(***************************************************************************)
\* "During ramp mode, ignore CSV-provided start_offset_days"
ClearOffsets(store, refs) ==
  [j \in 1..Len(store) |->
     IF j \in Range(refs) THEN [store[j] EXCEPT !.start_offset_days = None]
     ELSE store[j]]

\* a safety net that leaves the seasonal rows as the ramp left them
SafetyNetRow_PlainOnly(row) ==
  IF /\ FreqDays(row) >= 365
     /\ ~IsSafety(row)
     /\ ~IsSeasonal(row)
     /\ (~HasOffset(row) \/ row.start_offset_days.v < 90)
    THEN [row EXCEPT !.start_offset_days = Num(90)]
    ELSE row

\* "Safety net: ensure annual+ non-safety tasks are not day-1 during ramp"
SafetyNetRow(row) ==
  IF /\ FreqDays(row) >= 365
     /\ ~IsSafety(row)
     /\ (~HasOffset(row) \/ row.start_offset_days.v < 90)
    THEN [row EXCEPT !.start_offset_days = Num(90)]
    ELSE row

SafetyNet(store, refs) ==
  [j \in 1..Len(store) |->
     IF j \in Range(refs) THEN SafetyNetRow(store[j]) ELSE store[j]]

\* [raised, considered, filtered, resolved, store]: resolved is the list
\* handed to insertion, store holds its rows as they are then
\* what a pass leaves: the lists (as positions in all_rows), the rows
\* after the last step, and the rows at two points of the pass
PlanRecord(considered, filtered, resolved, store2, raised, store4) ==
  [raised |-> raised, considered |-> considered,
   filtered |-> filtered, resolved |-> resolved, store |-> store4,
   resolved_rows |-> [j \in 1..Len(resolved) |-> store2[resolved[j]]],
   to_insert |-> IF raised THEN <<>>
                 ELSE [j \in 1..Len(resolved) |-> store4[resolved[j]]]]

PlanRamped(considered, filtered, resolved, store2, ramp, ramp_mode) ==
  PlanRecord(considered, filtered, resolved, store2, ramp.raised,
             IF ramp_mode THEN SafetyNet(ramp.store, resolved)
             ELSE ramp.store)

PlanResolved(considered, filtered, resolved, store2, today, ramp_mode, lookup) ==
  PlanRamped(considered, filtered, resolved, store2,
             ApplyOnboardingRamp(store2, resolved, today, ramp_mode, lookup),
             ramp_mode)

PlanEnriched(considered, filtered, store2, today, ramp_mode, lookup) ==
  PlanResolved(considered, filtered, ResolveOverlaps(store2, filtered),
               store2, today, ramp_mode, lookup)

PlanFiltered(all_rows, filtered, today, ramp_mode, lookup) ==
  PlanEnriched(Len(all_rows), filtered,
               EnrichTaskRowsDefaults(
                 IF ramp_mode THEN ClearOffsets(all_rows, filtered)
                 ELSE all_rows,
                 filtered),
               today, ramp_mode, lookup)

GeneratePlan(all_rows, features, today, ramp_mode, lookup) ==
  PlanFiltered(all_rows, FilterRowsByFeatures(all_rows, features), today,
               ramp_mode, lookup)

(***************************************************************************)
(* Inputs of the recurrence calculator.                                    *)
(***************************************************************************)
AnchorMonths == {None, Num(0), Num(1), Num(2), Num(3), Num(6), Num(9),
                 Num(12), Num(13)}
AnchorDays == {None, Num(0), Num(1), Num(28), Num(29), Num(30), Num(31)}

FixedRows ==
  {[BlankRow EXCEPT !.seasonal = Str("true"),
                    !.seasonal_anchor_type = a,
                    !.season_anchor_month = m,
                    !.season_anchor_day = d]
     : a \in {Str("fixed_date")}, m \in AnchorMonths, d \in AnchorDays}
  \cup
  {[BlankRow EXCEPT !.seasonal = Str(" Yes "),
                    !.seasonal_anchor_type = Str(" Fixed_Date "),
                    !.season_anchor_month = Num(2),
                    !.season_anchor_day = d,
                    !.frequency_days = Num(90),
                    !.start_offset_days = Num(5)]
     : d \in {Num(28), Num(30)}}

SeasonRows ==
  {[BlankRow EXCEPT !.seasonal = Num(1),
                    !.seasonal_anchor_type = a,
                    !.season_code = c]
     : a \in {Str("season_start"), Str("SEASON_START")},
       c \in {Str("winter"), Str("spring"), Str("summer"), Str("autumn"),
              Str(" Winter")}}

CalcFrequencies == {None, Str("abc"), Num(0), Num(-5), Num(1), Num(90)}
CalcOffsets == {None, Str("abc"), Num(-3), Num(0), Num(5)}

\* seasonal rows whose anchor metadata is incomplete or unknown
IncompleteRows ==
  {[BlankRow EXCEPT !.seasonal = Str("true"),
                    !.seasonal_anchor_type = a[1],
                    !.season_anchor_month = a[2],
                    !.season_anchor_day = a[3],
                    !.season_code = a[4],
                    !.frequency_days = f,
                    !.start_offset_days = o]
     : a \in {<<None, Num(2), Num(1), Str("winter")>>,
              <<Str("lunar"), Num(2), Num(1), Str("winter")>>,
              <<Str("fixed_date"), None, Num(1), Str("winter")>>,
              <<Str("fixed_date"), Num(2), Num(0), Str("winter")>>,
              <<Str("fixed_date"), Str("abc"), Num(1), None>>,
              <<Str("season_start"), Num(2), Num(1), None>>,
              <<Str("season_start"), Num(2), Num(1), Str("monsoon")>>},
       f \in CalcFrequencies, o \in CalcOffsets}

NonSeasonalRows ==
  {[BlankRow EXCEPT !.seasonal = s,
                    !.seasonal_anchor_type = Str("fixed_date"),
                    !.season_anchor_month = Num(6),
                    !.season_anchor_day = Num(1),
                    !.frequency_days = f,
                    !.start_offset_days = o]
     : s \in {None, Str("false"), Str("maybe"), Num(0)},
       f \in CalcFrequencies, o \in CalcOffsets}

AnchoredRows == FixedRows \cup SeasonRows
UnanchoredRows == IncompleteRows \cup NonSeasonalRows

(***************************************************************************)
(* Inputs of the overlap resolver.                                         *)
(***************************************************************************)
OverlapGroups == {None, Str("  "), Str("gutter_check"), Str(" gutter_check "),
                  Str("roof")}
OverlapRanks == {None, Str("abc"), Num(1), Num(2), Num(1000000)}

OverlapRows ==
  {[BlankRow EXCEPT !.title = Str("Inspect Gutters"),
                    !.overlap_group = g, !.variant_rank = k]
     : g \in OverlapGroups, k \in OverlapRanks}


(***************************************************************************)
(* Specification of the recurrence calculator: _compute_next_due_date is   *)
(* called once on a row and a value of today.                              *)
(***************************************************************************)
calcVars == <<cRow, cToday, cDue, cDone>>
overlapVars == <<oRows, oOut, oDone>>
genVars == <<gIn, gPlan, gDone>>
houseVars == <<templates, homeFeatures, userRow, tasks, nextId, clock,
               taskKeySupported, last>>
matchVars == <<mIn, mOut, mDone>>
orderVars == <<dIn, dPlan, dRan>>
entryVars == <<eIn, eRet, eDone>>
raceVars == <<runs>>
vars == <<cRow, cToday, cDue, cDone, oRows, oOut, oDone, gIn, gPlan, gDone,
          templates, homeFeatures, userRow, tasks, nextId, clock,
          taskKeySupported, last,
          mIn, mOut, mDone,
          dIn, dPlan, dRan,
          eIn, eRet, eDone,
          runs>>

CalcIdle == cRow = BlankRow /\ cToday = 0 /\ cDue = 0 /\ cDone = FALSE
OverlapIdle == oRows = <<>> /\ oOut = <<>> /\ oDone = FALSE
NoInput == [rows |-> <<>>, features |-> <<>>, today |-> 0,
            ramp_mode |-> FALSE, lookup |-> [res |-> "error"]]
NoPlan == [raised |-> FALSE, considered |-> 0, filtered |-> <<>>,
           resolved |-> <<>>, store |-> <<>>, resolved_rows |-> <<>>,
           to_insert |-> <<>>]
GenIdle == gIn = NoInput /\ gPlan = NoPlan /\ gDone = FALSE
NoUser == [res |-> "missing"]
NoOp == [op |-> "none"]
HouseIdle ==
  /\ templates = <<>> /\ homeFeatures = <<>> /\ userRow = NoUser
  /\ tasks = {} /\ nextId = 1 /\ clock = 0 /\ taskKeySupported = TRUE
  /\ last = NoOp

NoMatchInput == [cell |-> None, features |-> ("has_hvac" :> FALSE)]
NoMatchOutput == [req |-> <<>>, errors |-> <<>>, kept |-> FALSE]
MatchIdle == mIn = NoMatchInput /\ mOut = NoMatchOutput /\ mDone = FALSE

NoOrderInput == [rows |-> <<>>, reordered |-> <<>>, features |-> <<>>,
                 today |-> 0, ramp_mode |-> FALSE,
                 lookup |-> [res |-> "error"]]
NoOrderPlans == [supplied |-> NoPlan, reordered |-> NoPlan]
OrderIdle == dIn = NoOrderInput /\ dPlan = NoOrderPlans /\ dRan = {}

NoEntryInput == [tmpl |-> [res |-> "error"]]
NoReturn == [type |-> "none"]
EntryIdle == eIn = NoEntryInput /\ eRet = NoReturn /\ eDone = FALSE

RaceIdle == runs = <<>>

CalcInit ==
  /\ \/ cRow \in AnchoredRows /\ cToday \in 0..MaxToday
     \/ cRow \in UnanchoredRows /\ cToday \in {t \in 0..MaxToday : t % 73 = 0}
  /\ cDue = 0
  /\ cDone = FALSE
  /\ OverlapIdle
  /\ GenIdle
  /\ HouseIdle
  /\ MatchIdle
  /\ OrderIdle
  /\ EntryIdle
  /\ RaceIdle

ComputeDue ==
  /\ ~cDone
  /\ cDue' = ComputeNextDueDate(cRow, cToday)
  /\ cDone' = TRUE
  /\ UNCHANGED <<cRow, cToday, overlapVars, genVars, houseVars, matchVars,
                 orderVars,
                 entryVars,
                 raceVars>>

CalcNext == ComputeDue

CalcSpec == CalcInit /\ [][CalcNext]_vars

(***************************************************************************)
(* Specification of the overlap resolver: _resolve_overlaps is called once *)
(* on a list of matched rows.                                              *)
(***************************************************************************)
OverlapInit ==
  /\ oRows \in SeqsUpTo(OverlapRows, MaxRows)
  /\ oOut = <<>>
  /\ oDone = FALSE
  /\ CalcIdle
  /\ GenIdle
  /\ HouseIdle
  /\ MatchIdle
  /\ OrderIdle
  /\ EntryIdle
  /\ RaceIdle

Resolve ==
  /\ ~oDone
  /\ oOut' = ResolveOverlaps(oRows, Refs(oRows))
  /\ oDone' = TRUE
  /\ UNCHANGED <<oRows, calcVars, genVars, houseVars, matchVars,
                 orderVars,
                 entryVars,
                 raceVars>>

OverlapNext == Resolve

OverlapSpec == OverlapInit /\ [][OverlapNext]_vars

(***************************************************************************)
(* Specification of the requirement matcher: one template row whose        *)
(* feature_requirements cell is drawn from the texts of at most MaxSegs    *)
(* segments, filtered against one feature set.                             *)
(***************************************************************************)
MatchSegs ==
  { Seg("has_hvac", "true"), Seg(" has_hvac ", "TRUE"), Seg("has_hvac", "No"),
    Seg("has_disposal", "1"), Seg("has_gutters", "no"),
    Seg("has_carpet", " YES "), Seg("future_key", "maybe"),
    Seg("has_pool", "true"),
    Seg("has_hvac", "maybe"), Bare("bogus"), Bare("  ") }

MatchCells ==
  {None, Str("")} \cup {Req(segs) : segs \in SeqsUpTo(MatchSegs, MaxSegs)}

\* the flags regenerate_tasks builds (booleans of ALLOWED_FEATURE_KEYS only)
\* and the dicts the questionnaire builds (with the 'carpet' answer)
MatchFeatures ==
  { ("has_hvac" :> TRUE) @@ ("has_gutters" :> FALSE)
      @@ ("has_garbage_disposal" :> TRUE) @@ ("has_carpet" :> TRUE),
    ("has_hvac" :> FALSE) @@ ("has_gutters" :> TRUE)
      @@ ("has_garbage_disposal" :> FALSE) @@ ("has_carpet" :> FALSE),
    ("has_hvac" :> TRUE) @@ ("has_gutters" :> TRUE) @@ ("carpet" :> "yes"),
    ("has_hvac" :> FALSE) @@ ("carpet" :> "no"),
    ("has_gutters" :> TRUE) }

MatchRow(cell) == [BlankRow EXCEPT !.feature_requirements = cell]

MatchInit ==
  /\ mIn \in [cell : MatchCells, features : MatchFeatures]
  /\ mOut = NoMatchOutput
  /\ mDone = FALSE
  /\ CalcIdle
  /\ OverlapIdle
  /\ GenIdle
  /\ HouseIdle
  /\ OrderIdle
  /\ EntryIdle
  /\ RaceIdle

Match ==
  /\ ~mDone
  /\ LET parsed == ParseFeatureRequirements(mIn.cell)
         kept == FilterRowsByFeatures(<<MatchRow(mIn.cell)>>, mIn.features)
     IN mOut' = [req |-> parsed.req, errors |-> parsed.errors,
                 kept |-> kept # <<>>]
  /\ mDone' = TRUE
  /\ UNCHANGED <<mIn, calcVars, overlapVars, genVars, houseVars, orderVars,
                 entryVars,
                 raceVars>>

MatchNext == Match

MatchSpec == MatchInit /\ [][MatchNext]_vars

(***************************************************************************)
(* Inputs of the generation pipeline: a small catalog of template rows,    *)
(* the feature sets of a household, and the outcomes of the users lookup.  *)
(***************************************************************************)
MaxCatalog == 3
MaxLong == 8
MaxSafety == 15
MaxSeasonal == 9

GenRowList ==
  << [BlankRow EXCEPT !.title = Str(T_CleanGutters),
                      !.task_key = Str("k1"),
                      !.frequency_days = Num(180),
                      !.feature_requirements =
                         Req(<<Seg("has_gutters", "true")>>),
                      !.overlap_group = Str("gutter_check"),
                      !.variant_rank = Num(2)],
     [BlankRow EXCEPT !.title = Str(T_CleanGutters),
                      !.frequency_days = Num(365),
                      !.overlap_group = Str(" gutter_check "),
                      !.variant_rank = Num(1)],
     [BlankRow EXCEPT !.title = Str(T_TestSmoke),
                      !.task_key = Str("k2"),
                      !.frequency_days = Num(30)],
     [BlankRow EXCEPT !.title = Str(T_FlushHeater),
                      !.frequency_days = Num(730),
                      !.overlap_group = Str("gutter_check")],
     [BlankRow EXCEPT !.title = Str(T_Winterize),
                      !.seasonal = Str("TRUE"),
                      !.seasonal_anchor_type = Str("SEASON_START"),
                      !.season_code = Str(" Winter"),
                      !.overlap_group = Str("roof"),
                      !.variant_rank = Num(1)],
     [BlankRow EXCEPT !.title = Str(T_ReplaceFilter),
                      !.frequency_days = Num(90),
                      !.feature_requirements =
                         Req(<<Seg("has_hvac", "true")>>),
                      !.overlap_group = Str("  ")] >>

GenRows == Range(GenRowList)

\* a catalog of n rows that repeats GenRowList
LongCatalog(n) ==
  [i \in 1..n |-> GenRowList[((i - 1) % Len(GenRowList)) + 1]]

\* the i-th of a family of distinct safety-critical templates; every third
\* one has a start_offset_days written in the catalog
SafetyRow(i) ==
  [BlankRow EXCEPT !.title = Str(T_TestSmoke),
                   !.frequency_days = Num(29 + i),
                   !.start_offset_days = IF i % 3 = 0 THEN Num(30) ELSE None]

\* the i-th of a family of distinct routine templates (not safety-critical,
\* not seasonal, shorter than a year); every fourth one has a
\* start_offset_days written in the catalog
RoutineRow(i) ==
  [BlankRow EXCEPT !.title = Str(T_ReplaceFilter),
                   !.frequency_days = Num(59 + i),
                   !.start_offset_days = IF i % 4 = 0 THEN Num(45) ELSE None]

SafetyCatalog(n) == [i \in 1..n |-> SafetyRow(i)]
RoutineCatalog(n) == [i \in 1..n |-> RoutineRow(i)]

\* a seasonal template anchored on a fixed date
FixedDateRow(month, day) ==
  [BlankRow EXCEPT !.title = Str(T_Winterize),
                   !.seasonal = Str("true"),
                   !.seasonal_anchor_type = Str("fixed_date"),
                   !.season_anchor_month = Num(month),
                   !.season_anchor_day = Num(day)]

\* catalogs with a template anchored on February 30 or on month 13
AnchorCatalogs ==
  { <<FixedDateRow(2, 30), GenRowList[3]>>,
    <<GenRowList[6], FixedDateRow(13, 1)>>,
    <<FixedDateRow(6, 15), FixedDateRow(2, 30)>> }

\* a template whose priority, category, seasonal flag and safety_critical
\* are written in the catalog
ExplicitRow(title, safety) ==
  [BlankRow EXCEPT !.title = Str(title),
                   !.frequency_days = Num(90),
                   !.priority = Str("low"),
                   !.category = Str("Garden"),
                   !.seasonal = Str("false"),
                   !.safety_critical = safety]

ExplicitCatalogs ==
  { <<ExplicitRow(title, safety)>> :
      title \in ModelTitles, safety \in {Str("true"), Bool(TRUE), Str("false")} }

\* a seasonal template (start of winter) with an interval
SeasonalRow(frequency_days) ==
  [BlankRow EXCEPT !.title = Str(T_Winterize),
                   !.frequency_days = Num(frequency_days),
                   !.seasonal = Str("true"),
                   !.seasonal_anchor_type = Str("season_start"),
                   !.season_code = Str("winter")]

\* catalogs with seasonal and plain templates of one and two years
IntervalCatalogs ==
  { <<SeasonalRow(frequency_days), GenRowList[3], GenRowList[4]>> :
      frequency_days \in {180, 365, 730} }
    \cup { <<SeasonalRow(365), SeasonalRow(730), RoutineRow(1)>>,
           <<GenRowList[4], RoutineRow(1), RoutineRow(2)>> }

\* catalogs of distinct yearly seasonal templates
SeasonalCatalogs ==
  { [i \in 1..n |-> SeasonalRow(364 + i)] : n \in 1..MaxSeasonal }

GenCatalogs ==
  SeqsUpTo(GenRows, MaxCatalog)
    \cup {LongCatalog(n) : n \in (MaxCatalog + 1)..MaxLong}
    \cup {SafetyCatalog(n) : n \in 1..MaxSafety}
    \cup {RoutineCatalog(n) : n \in 1..MaxLong}
    \cup AnchorCatalogs
    \cup ExplicitCatalogs
    \cup IntervalCatalogs

GenFeatures ==
  { ("has_gutters" :> TRUE) @@ ("has_hvac" :> TRUE),
    ("has_gutters" :> FALSE) @@ ("has_hvac" :> TRUE) }

GenTodays == {MkDate(2023, 1, 11), MkDate(2023, 11, 20)}

GenLookups ==
  { [res |-> "error"], [res |-> "missing"],
    [res |-> "found", persona |-> None, budget |-> None],
    [res |-> "found", persona |-> Str(" Buyer "), budget |-> Num(20)] }

\* a household with eight stagger weeks
OnTopLookup == [res |-> "found", persona |-> Str("on_top"), budget |-> Num(60)]

(***************************************************************************)
(* Specification of the generation pipeline: one pass of filter, enrich,   *)
(* resolve, ramp and safety net over a catalog, as                         *)
(* seed_tasks_from_catalog_rows runs it before the insert.                 *)
(***************************************************************************)
\* the users lookup of the ramp is made on a first seed only
GenInputs ==
  [rows : GenCatalogs, features : GenFeatures, today : GenTodays,
   ramp_mode : {TRUE}, lookup : GenLookups]
    \cup [rows : GenCatalogs, features : GenFeatures, today : GenTodays,
          ramp_mode : {FALSE}, lookup : {[res |-> "error"]}]
    \cup [rows : SeasonalCatalogs, features : GenFeatures, today : GenTodays,
          ramp_mode : {TRUE}, lookup : {OnTopLookup}]

GenInit ==
  /\ gIn \in GenInputs
  /\ gPlan = NoPlan
  /\ gDone = FALSE
  /\ CalcIdle
  /\ OverlapIdle
  /\ HouseIdle
  /\ MatchIdle
  /\ OrderIdle
  /\ EntryIdle
  /\ RaceIdle

Generate ==
  /\ ~gDone
  /\ gPlan' = GeneratePlan(gIn.rows, gIn.features, gIn.today, gIn.ramp_mode,
                           gIn.lookup)
  /\ gDone' = TRUE
  /\ UNCHANGED <<gIn, calcVars, overlapVars, houseVars, matchVars,
                 orderVars,
                 entryVars,
                 raceVars>>

GenNext == Generate

GenSpec == GenInit /\ [][GenNext]_vars

(***************************************************************************)
(* Specification of two passes of the generation pipeline over the same    *)
(* catalog rows supplied in two orders, with the same features, today,     *)
(* mode and users lookup.                                                  *)
(***************************************************************************)
\* a row of the same group and rank as GenRowList[2], and another template
TieRankRow ==
  [BlankRow EXCEPT !.title = Str(T_CleanGutters),
                   !.frequency_days = Num(180),
                   !.overlap_group = Str("gutter_check"),
                   !.variant_rank = Num(1)]

\* the i-th of a family of distinct ungrouped templates of the same title,
\* priority and frequency
TieRow(i) ==
  [BlankRow EXCEPT !.title = Str(T_ReplaceFilter),
                   !.frequency_days = Num(90),
                   !.variant_rank = Num(i)]

TieCatalog(n) == [i \in 1..n |-> TieRow(i)]

OrderRows == {GenRowList[1], GenRowList[2], GenRowList[3], TieRankRow}

OrderCatalogs ==
  SeqsUpTo(OrderRows, MaxCatalog)
    \cup {TieCatalog(n) : n \in 1..MaxLong}
    \cup {RoutineCatalog(n) : n \in 1..MaxLong}

Reverse(s) == [i \in 1..Len(s) |-> s[Len(s) + 1 - i]]
Rotate(s) == [i \in 1..Len(s) |-> s[(i % Len(s)) + 1]]
SwapFirst(s) ==
  [i \in 1..Len(s) |->
     IF Len(s) < 2 THEN s[i] ELSE IF i = 1 THEN s[2]
     ELSE IF i = 2 THEN s[1] ELSE s[i]]

Reorderings(rows) == {Reverse(rows), Rotate(rows), SwapFirst(rows)}

OrderInit ==
  /\ \E rows \in OrderCatalogs, features \in GenFeatures :
       \E reordered \in Reorderings(rows) :
         \E ramp_mode \in BOOLEAN :
           \E lookup \in IF ramp_mode THEN GenLookups
                         ELSE {[res |-> "error"]} :
             dIn = [rows |-> rows, reordered |-> reordered,
                    features |-> features, today |-> MkDate(2023, 1, 11),
                    ramp_mode |-> ramp_mode, lookup |-> lookup]
  /\ dPlan = NoOrderPlans
  /\ dRan = {}
  /\ CalcIdle
  /\ OverlapIdle
  /\ GenIdle
  /\ HouseIdle
  /\ MatchIdle
  /\ EntryIdle
  /\ RaceIdle

RunSupplied ==
  /\ "supplied" \notin dRan
  /\ dPlan' = [dPlan EXCEPT !.supplied =
                 GeneratePlan(dIn.rows, dIn.features, dIn.today,
                              dIn.ramp_mode, dIn.lookup)]
  /\ dRan' = dRan \cup {"supplied"}
  /\ UNCHANGED <<dIn, calcVars, overlapVars, genVars, houseVars, matchVars,
                 entryVars,
                 raceVars>>

RunReordered ==
  /\ "reordered" \notin dRan
  /\ dPlan' = [dPlan EXCEPT !.reordered =
                 GeneratePlan(dIn.reordered, dIn.features, dIn.today,
                              dIn.ramp_mode, dIn.lookup)]
  /\ dRan' = dRan \cup {"reordered"}
  /\ UNCHANGED <<dIn, calcVars, overlapVars, genVars, houseVars, matchVars,
                 entryVars,
                 raceVars>>

OrderNext == RunSupplied \/ RunReordered

OrderSpec == OrderInit /\ [][OrderNext]_vars

(***************************************************************************)
(* The tasks table of one household and the statements run against it.     *)
(* A stored task is a record; archived is FALSE and last_completed is None *)
(* on insertion, as the table's defaults give them.                        *)
(***************************************************************************)
PRIORITY_VALUES == {"low", "medium", "high"}

\* title = (r.get('title') or '').strip(); rows without one are skipped
HasTitle(row) == row.title.k = "str" /\ StripText(row.title.s) # <<>>

\* the payload _insert_tasks_for_user builds for one row (description and
\* estimated_minutes, which no rule reads, are left out)
TaskPayload(row, day, key_supported) ==
  LET seasonal == ParseBool(row.seasonal, FALSE)
      default_freq == IF seasonal THEN 365 ELSE 30
      freq == IntOr(ParseInt(row.frequency_days, Num(default_freq)),
                    default_freq)
      priority == StripLower(OrEmpty(row.priority))
      category == Strip(OrEmpty(row.category))
      task_key == Strip(OrEmpty(row.task_key))
  IN [title |-> StripText(row.title.s),
      task_key |-> IF key_supported /\ task_key # ""
                     THEN Str(task_key) ELSE None,
      frequency_days |-> IF freq < 1 THEN default_freq ELSE freq,
      next_due_date |-> Num(ComputeNextDueDate(row, day)),
      is_completed |-> FALSE,
      priority |-> IF priority \in PRIORITY_VALUES
                     THEN Str(priority) ELSE None,
      category |-> IF category # "" THEN Str(category) ELSE None,
      seasonal |-> Bool(seasonal),
      seeded_from_onboarding |-> Bool(TRUE),
      stagger_offset |-> ParseInt(row.start_offset_days, None)]

\* to_insert of _insert_tasks_for_user
BuildPayloads(rows, day, key_supported) ==
  LET titled == SelectSeq(rows, HasTitle)
  IN [j \in 1..Len(titled) |-> TaskPayload(titled[j], day, key_supported)]

\* "row.pop('task_key', None)"
WithoutTaskKey(payload) == [payload EXCEPT !.task_key = None]

\* the payload cut down to MIN_KEYS
MinimalPayload(payload) ==
  [payload EXCEPT !.task_key = None, !.priority = None, !.category = None,
                  !.seasonal = None, !.seeded_from_onboarding = None,
                  !.stagger_offset = None]

\* the outcomes of the insert attempts of one batch: the first insert
\* succeeds; it fails on the task_key column and the retry without it
\* succeeds; the minimal insert succeeds, after an error that named
\* task_key or not; every attempt fails, likewise
InsertOutcomes ==
  {"full", "no_task_key", "minimal", "minimal_after_key", "failed",
   "failed_after_key"}

\* the rows that reach the table
InsertedPayloads(payloads, outcome) ==
  CASE outcome = "full" -> payloads
    [] outcome = "no_task_key" ->
         [j \in 1..Len(payloads) |-> WithoutTaskKey(payloads[j])]
    [] outcome \in {"minimal", "minimal_after_key"} ->
         [j \in 1..Len(payloads) |-> MinimalPayload(payloads[j])]
    [] OTHER -> <<>>

\* "TASK_KEY_SUPPORTED = False" when the error message names task_key
KeySupportAfter(flag, outcome) ==
  flag /\ outcome \notin {"no_task_key", "minimal_after_key",
                          "failed_after_key"}

StoredTask(payload, id) ==
  [id |-> id, title |-> payload.title, task_key |-> payload.task_key,
   frequency_days |-> payload.frequency_days,
   next_due_date |-> payload.next_due_date,
   is_completed |-> payload.is_completed, archived |-> FALSE,
   last_completed |-> None, priority |-> payload.priority,
   category |-> payload.category, seasonal |-> payload.seasonal,
   seeded_from_onboarding |-> payload.seeded_from_onboarding,
   stagger_offset |-> payload.stagger_offset]

\* an insert that leaves out the rows whose title is in the table
InsertTasks_Upsert(stored, payloads, first_id) ==
  stored \cup {StoredTask(payloads[j], first_id + j - 1)
                 : j \in {i \in 1..Len(payloads) :
                            \A t \in stored : t.title # payloads[i].title}}

InsertTasks(stored, payloads, first_id) ==
  stored \cup {StoredTask(payloads[j], first_id + j - 1)
                 : j \in 1..Len(payloads)}

Active(t) == ~t.archived /\ ~t.is_completed

\* delete ... eq(archived, False).eq(is_completed, False)
\*            .gte(next_due_date, today_iso)
DeleteUpcoming(stored, day) ==
  {t \in stored :
     ~(Active(t) /\ IsNum(t.next_due_date) /\ t.next_due_date.v >= day)}

\* delete ... eq(archived, False).eq(is_completed, False)
\*            .is_(next_due_date, None)
DeleteUndated(stored) ==
  {t \in stored : ~(Active(t) /\ IsNone(t.next_due_date))}

\* a fallback clear without the is_completed filter
FallbackClear_AllTasks(stored) == {t \in stored : t.archived}

\* delete ... eq(archived, False).eq(is_completed, False)
FallbackClear(stored) == {t \in stored : ~Active(t)}

\* the clearing step: sel says which selective delete raised, if any;
\* fallback_ok says whether the fallback delete went through
ClearPaths ==
  {[sel |-> "ok", fallback_ok |-> TRUE]}
    \cup [sel : {"first_failed", "second_failed"}, fallback_ok : BOOLEAN]

ClearTasks(stored, day, path) ==
  IF path.sel = "ok" THEN DeleteUndated(DeleteUpcoming(stored, day))
  ELSE
    LET left == IF path.sel = "second_failed"
                  THEN DeleteUpcoming(stored, day) ELSE stored
    IN IF path.fallback_ok THEN FallbackClear(left) ELSE left

(***************************************************************************)
(* Specification of one household: regeneration runs                       *)
(* (regenerate_tasks, over the rows of task_templates), complete_task      *)
(* calls and the passing of days, one after the other.  The task_templates *)
(* table is not empty and its select succeeds, so that every run seeds     *)
(* from the same catalog.                                                  *)
(***************************************************************************)
MaxId == 2
MaxDays == 1

StartDay == MkDate(2023, 3, 1)

\* the mapping of a task_templates row to a catalog row: the keys
\* start_offset_days and safety_critical are not copied
CatalogRow(r) ==
  [r EXCEPT !.start_offset_days = None, !.safety_critical = None]

CatalogRows(tmpl_rows) ==
  [j \in 1..Len(tmpl_rows) |-> CatalogRow(tmpl_rows[j])]

\* {k: bool(features_row.get(k, False)) for k in ALLOWED_FEATURE_KEYS}
FeatureFlags(features_row) ==
  [k \in ALLOWED_FEATURE_KEYS |-> FeatureOn(features_row, k)]

\* what the ramp's select of persona and time budget returns
PersonaLookup(urow) ==
  IF urow.res = "found"
    THEN [res |-> "found", persona |-> urow.persona, budget |-> urow.budget]
    ELSE [res |-> urow.res]

\* ramp_mode of seed_tasks_from_catalog_rows.  started.fmt tells how
\* onboarding_started_at reads: not recorded, with a UTC offset (utcnow()
\* minus an aware datetime raises TypeError), or without one.
RampMode(first_seed, urow, day) ==
  IF urow.res # "found" THEN TRUE
  ELSE IF urow.started.fmt \in {"none", "aware"} THEN TRUE
  ELSE IF day - urow.started.day <= 14 THEN TRUE
  ELSE first_seed

HouseTemplates ==
  { << GenRowList[3],
       [GenRowList[2] EXCEPT !.start_offset_days = Num(5)] >>,
    << GenRowList[6] >> }

HouseFeatures == { ("has_gutters" :> TRUE) @@ ("has_hvac" :> TRUE) }

HouseUsers ==
  { NoUser,
    [res |-> "found", persona |-> Str(" Buyer "), budget |-> Num(20),
     started |-> [fmt |-> "aware", day |-> StartDay]],
    [res |-> "found", persona |-> None, budget |-> None,
     started |-> [fmt |-> "naive", day |-> StartDay - 20]],
    [res |-> "found", persona |-> None, budget |-> None,
     started |-> [fmt |-> "none", day |-> 0]] }

\* how the clearing step went: the selective deletes, the fallback delete,
\* or neither ("kept": the fallback raised too)
ClearKind(path) ==
  IF path.sel = "ok" THEN "selective"
  ELSE IF path.fallback_ok THEN "fallback" ELSE "kept"

Did(op, result, clear) == [op |-> op, result |-> result, clear |-> clear]

Init ==
  /\ templates \in HouseTemplates
  /\ homeFeatures \in HouseFeatures
  /\ userRow \in HouseUsers
  /\ tasks = {}
  /\ nextId = 1
  /\ clock = StartDay
  /\ taskKeySupported = TRUE
  /\ last = Did("none", "ok", "none")
  /\ CalcIdle
  /\ OverlapIdle
  /\ GenIdle
  /\ MatchIdle
  /\ OrderIdle
  /\ EntryIdle
  /\ RaceIdle

\* the run ends before the clearing step: the select of the existing tasks
\* (or of home_features) raised
RegenerateStartError ==
  /\ last' = Did("regenerate", "start_error", "none")
  /\ UNCHANGED <<tasks, nextId, taskKeySupported>>

\* the values ramp_mode can take: from the users row, or TRUE when the
\* select of onboarding_started_at raises
RampModes ==
  {RampMode(tasks = {}, userRow, clock),
   RampMode(tasks = {}, [res |-> "error"], clock)}

\* what the ramp's lookup can return; the ramp makes it in ramp mode only
RampLookups(ramp_mode) ==
  IF ramp_mode THEN {PersonaLookup(userRow), [res |-> "error"]}
  ELSE {[res |-> "error"]}

\* the run after the clearing step, which left the table as cleared: the
\* pipeline, the ramp and the insert
SeedAfterClear(cleared, ramp_mode, lookup, clear_kind) ==
  \E plan \in {GeneratePlan(CatalogRows(templates),
                            FeatureFlags(homeFeatures), clock, ramp_mode,
                            lookup)} :
    IF plan.raised
      THEN /\ tasks' = cleared
           /\ last' = Did("regenerate", "ramp_error", clear_kind)
           /\ UNCHANGED <<nextId, taskKeySupported>>
      ELSE \E payloads \in {BuildPayloads(plan.to_insert, clock,
                                          taskKeySupported)} :
           \E outcome \in InsertOutcomes :
             LET rows == InsertedPayloads(payloads, outcome)
             IN /\ payloads = <<>> => outcome = "full"
                /\ tasks' = InsertTasks(cleared, rows, nextId)
                /\ nextId' = nextId + Len(rows)
                /\ taskKeySupported' =
                     KeySupportAfter(taskKeySupported, outcome)
                /\ last' = Did("regenerate",
                               IF payloads # <<>> /\ rows = <<>>
                                 THEN "insert_failed" ELSE "ok",
                               clear_kind)

\* the run from the clearing step on
RegenerateRun(ramp_mode, lookup) ==
  \E path \in ClearPaths :
    SeedAfterClear(ClearTasks(tasks, clock, path), ramp_mode, lookup,
                   ClearKind(path))

Regenerate ==
  /\ nextId <= MaxId
  /\ \/ RegenerateStartError
     \/ \E ramp_mode \in RampModes :
          \E lookup \in RampLookups(ramp_mode) :
            RegenerateRun(ramp_mode, lookup)
  /\ UNCHANGED <<templates, homeFeatures, userRow, clock, calcVars,
                 overlapVars, genVars, matchVars,
                 orderVars,
                 entryVars,
                 raceVars>>

CompleteTask ==
  /\ \E t \in tasks :
       tasks' = (tasks \ {t}) \cup
                  {[t EXCEPT !.is_completed = TRUE,
                             !.last_completed = Num(clock),
                             !.next_due_date = Num(clock + t.frequency_days)]}
  /\ last' = Did("complete", "ok", "none")
  /\ UNCHANGED <<templates, homeFeatures, userRow, nextId, clock,
                 taskKeySupported, calcVars, overlapVars, genVars, matchVars,
                 orderVars,
                 entryVars,
                 raceVars>>

PassDay ==
  /\ clock < StartDay + MaxDays
  /\ clock' = clock + 1
  /\ last' = Did("day", "ok", "none")
  /\ UNCHANGED <<templates, homeFeatures, userRow, tasks, nextId,
                 taskKeySupported, calcVars, overlapVars, genVars, matchVars,
                 orderVars,
                 entryVars,
                 raceVars>>

Next == Regenerate \/ CompleteTask \/ PassDay

Spec == Init /\ [][Next]_vars

(***************************************************************************)
(* Specification of the requests of one household that overlap in time:    *)
(* two generation runs (seed_tasks_from_catalog_rows) and create_task.     *)
(* Each request is a sequence of statements on the tasks table and nothing *)
(* in the code orders the statements of two requests.  A run takes three   *)
(* steps: its selects of the existing tasks and of the users row, its      *)
(* clearing deletes, and its insert.  The two selective deletes of the     *)
(* clearing step are taken together, and so are the pipeline and the       *)
(* insert, which read no table a request writes.                           *)
(***************************************************************************)
MaxHand == 1

Runs == {1, 2}

IdleRun ==
  [pc |-> "idle", first_seed |-> FALSE, ramp_mode |-> FALSE,
   clear |-> "none", ids |-> {}]

T_HandMade == <<"M", "o", "w", " ", "l", "a", "w", "n">>

\* the task was made by create_task
HandMade(t) == t.title = T_HandMade

\* the form create_task reads: title, frequency_days, next_due_date (absent,
\* an ISO date, or a text fromisoformat rejects) and priority
CreateForms(day) ==
  [title : {<<" ">>, <<" ">> \o T_HandMade},
   frequency_days : {Num(0), Num(14)},
   next_due_date : {None, Num(day)},
   priority : {"urgent"}]

\* the row create_task inserts; the columns it does not name take their
\* defaults
HandTask(form, day, id) ==
  [id |-> id, title |-> StripText(form.title), task_key |-> None,
   frequency_days |-> form.frequency_days.v,
   next_due_date |-> IF IsNone(form.next_due_date)
                       THEN Num(day + form.frequency_days.v)
                       ELSE form.next_due_date,
   is_completed |-> FALSE, archived |-> FALSE, last_completed |-> None,
   priority |-> IF form.priority \in PRIORITY_VALUES
                  THEN Str(form.priority) ELSE None,
   category |-> None, seasonal |-> None, seeded_from_onboarding |-> None,
   stagger_offset |-> None]

\* the status create_task answers with before it inserts, "ok" if none
CreateCheck(form) ==
  IF StripText(form.title) = <<>> THEN "title_required"
  ELSE IF ~IsNum(form.frequency_days) THEN "frequency_not_number"
  ELSE IF form.frequency_days.v <= 0 THEN "frequency_not_positive"
  ELSE IF form.next_due_date.k = "str" THEN "invalid_due_date"
  ELSE "ok"

\* a catalog with an overlap group, and a household past its onboarding
\* window, for which ramp_mode is first_seed
RaceTemplates == {tmpl_rows \in HouseTemplates : Len(tmpl_rows) = 2}
RaceUsers ==
  {urow \in HouseUsers : urow.res = "found" /\ urow.started.fmt = "naive"}

RaceInit ==
  /\ templates \in RaceTemplates
  /\ homeFeatures \in HouseFeatures
  /\ userRow \in RaceUsers
  /\ tasks = {}
  /\ nextId = 1
  /\ clock = StartDay
  /\ taskKeySupported = TRUE
  /\ last = Did("none", "ok", "none")
  /\ runs = [r \in Runs |-> IdleRun]
  /\ CalcIdle
  /\ OverlapIdle
  /\ GenIdle
  /\ MatchIdle
  /\ OrderIdle
  /\ EntryIdle

\* create_task: the insert goes through or raises.  The household makes at
\* most MaxHand tasks by hand, the first rows of its table.
CreateTask ==
  /\ nextId <= MaxHand
  /\ \E form \in CreateForms(clock) :
       IF CreateCheck(form) # "ok"
         THEN /\ last' = Did("create", CreateCheck(form), "none")
              /\ UNCHANGED <<tasks, nextId>>
         ELSE \/ /\ tasks' = tasks \cup {HandTask(form, clock, nextId)}
                 /\ nextId' = nextId + 1
                 /\ last' = Did("create", "ok", "none")
              \/ /\ last' = Did("create", "create_failed", "none")
                 /\ UNCHANGED <<tasks, nextId>>
  /\ UNCHANGED <<templates, homeFeatures, userRow, clock, taskKeySupported,
                 runs, calcVars, overlapVars, genVars, matchVars, orderVars,
                 entryVars>>

\* the run reads the existing tasks and the users row
RunStart(r) ==
  /\ runs[r].pc = "idle"
  /\ \E ramp_mode \in RampModes :
       runs' = [runs EXCEPT ![r] = [@ EXCEPT !.pc = "started",
                                             !.first_seed = (tasks = {}),
                                             !.ramp_mode = ramp_mode]]
  /\ last' = Did("start", "ok", "none")
  /\ UNCHANGED <<templates, homeFeatures, userRow, tasks, nextId, clock,
                 taskKeySupported, calcVars, overlapVars, genVars, matchVars,
                 orderVars, entryVars>>

\* the clearing step of the run
RunClear(r) ==
  /\ runs[r].pc = "started"
  /\ \E path \in ClearPaths :
       /\ tasks' = ClearTasks(tasks, clock, path)
       /\ runs' = [runs EXCEPT ![r] = [@ EXCEPT !.pc = "cleared",
                                               !.clear = ClearKind(path)]]
       /\ last' = Did("clear", "ok", ClearKind(path))
  /\ UNCHANGED <<templates, homeFeatures, userRow, nextId, clock,
                 taskKeySupported, calcVars, overlapVars, genVars, matchVars,
                 orderVars, entryVars>>

\* the pipeline, the ramp and the insert of the run; ids are the rows it
\* inserted
RunInsert(r) ==
  /\ runs[r].pc = "cleared"
  /\ \E lookup \in RampLookups(runs[r].ramp_mode) :
       SeedAfterClear(tasks, runs[r].ramp_mode, lookup, runs[r].clear)
  /\ runs' = [runs EXCEPT ![r] = [@ EXCEPT !.pc = "done",
                                          !.ids = nextId..(nextId' - 1)]]
  /\ UNCHANGED <<templates, homeFeatures, userRow, clock, calcVars,
                 overlapVars, genVars, matchVars, orderVars, entryVars>>

RaceNext ==
  \/ CreateTask
  \/ \E r \in Runs : RunStart(r) \/ RunClear(r) \/ RunInsert(r)

RaceSpec == RaceInit /\ [][RaceNext]_vars

(***************************************************************************)
(* Specification of the generation entry point,                            *)
(* seed_tasks_from_static_catalog_or_templates: one call, over the three   *)
(* catalog sources it can use, and the value it returns.                   *)
(***************************************************************************)
\* TASK_TEMPLATES, cut down to the first template of four of its features
TASK_TEMPLATES ==
  [has_hvac |->
     <<[BlankRow EXCEPT !.title = Str(T_ReplaceFilter),
                        !.frequency_days = Num(30)]>>,
   has_gutters |->
     <<[BlankRow EXCEPT !.title = Str(T_CleanGutters),
                        !.frequency_days = Num(90)]>>,
   has_smoke_detectors |->
     <<[BlankRow EXCEPT !.title = Str(T_TestSmoke),
                        !.frequency_days = Num(30)]>>,
   has_water_heater |->
     <<[BlankRow EXCEPT !.title = Str(T_FlushHeater),
                        !.frequency_days = Num(365)]>>]

\* the order in which features.items() yields the flags of the model
FeatureOrder ==
  <<"has_hvac", "has_gutters", "has_smoke_detectors", "has_water_heater">>

\* all_rows of the in-memory fallback: the templates of the enabled features
RECURSIVE MemoryRows(_, _)
MemoryRows(features, i) ==
  IF i > Len(FeatureOrder) THEN <<>>
  ELSE (IF FeatureOn(features, FeatureOrder[i])
          THEN TASK_TEMPLATES[FeatureOrder[i]] ELSE <<>>)
         \o MemoryRows(features, i + 1)

\* the diagnostics dict (a record with its keys) and the other values the
\* entry point returns
Diag(considered, matched, inserted) ==
  [type |-> "dict", considered |-> considered, matched |-> matched,
   inserted |-> inserted]
WithSource(diag, source) ==
  [type |-> "dict", considered |-> diag.considered,
   matched |-> diag.matched, inserted |-> diag.inserted, source |-> source]
ErrorDiag ==
  [type |-> "dict", considered |-> 0, matched |-> 0, inserted |-> 0,
   source |-> "error", error |-> "str(e)"]
NoneDiag ==
  [type |-> "dict", considered |-> 0, matched |-> 0, inserted |-> 0,
   source |-> "none"]
ReturnsTrue == [type |-> "bool", value |-> TRUE]

\* seed_tasks_from_catalog_rows as the entry point sees it: it raises (the
\* select of the existing tasks, or the ramp), or returns its dict;
\* inserted is after - before, 0 when the insert went wrong
SeedPlan(plan, inner) ==
  IF inner = "start_error" \/ plan.raised THEN [raised |-> TRUE]
  ELSE [raised |-> FALSE,
        diag |-> Diag(plan.considered, Len(plan.filtered),
                      IF inner = "insert_failed" THEN 0
                      ELSE Len(BuildPayloads(plan.to_insert, StartDay,
                                             TRUE)))]

SeedTasksFromCatalogRows(rows, features, inner, lookup) ==
  SeedPlan(GeneratePlan(rows, features, StartDay, TRUE, lookup), inner)

SeedFromDb(seeded) ==
  IF seeded.raised THEN ErrorDiag ELSE WithSource(seeded.diag, "db")

SeedFromCsv(seeded) ==
  IF seeded.raised THEN ErrorDiag ELSE ReturnsTrue

SeedFromMemory(seeded) ==
  IF seeded.raised THEN ErrorDiag ELSE WithSource(seeded.diag, "memory")

SeedTasksFromStaticCatalogOrTemplates(env) ==
  LET tmpl_rows == IF env.tmpl.res = "rows" THEN env.tmpl.rows ELSE <<>>
  IN IF tmpl_rows # <<>>
       THEN SeedFromDb(SeedTasksFromCatalogRows(
              CatalogRows(tmpl_rows), env.features, env.inner, env.lookup))
     ELSE IF env.csv.exists
       THEN SeedFromCsv(SeedTasksFromCatalogRows(
              env.csv.rows, env.features, env.inner, env.lookup))
     ELSE IF MemoryRows(env.features, 1) # <<>>
       THEN SeedFromMemory(SeedTasksFromCatalogRows(
              MemoryRows(env.features, 1), env.features, env.inner,
              env.lookup))
     ELSE NoneDiag

\* what the select of task_templates gives: an error, no row, or rows
EntryTemplates ==
  {[res |-> "error"], [res |-> "rows", rows |-> <<>>]}
    \cup {[res |-> "rows", rows |-> rows] : rows \in HouseTemplates}

\* static/tasks_catalog.csv: absent, or present with its rows
EntryCsv ==
  {[exists |-> FALSE, rows |-> <<>>]}
    \cup {[exists |-> TRUE, rows |-> rows] :
            rows \in {<<>>, GenRowList} \cup
                     {RoutineCatalog(n) : n \in 1..MaxCatalog}}

EntryFeatures ==
  GenFeatures \cup {("has_gutters" :> FALSE) @@ ("has_hvac" :> FALSE)}

EntryInner == {"ok", "insert_failed", "start_error"}

EntryInit ==
  /\ eIn \in [tmpl : EntryTemplates, csv : EntryCsv,
              features : EntryFeatures, inner : EntryInner,
              lookup : {[res |-> "error"], [res |-> "missing"]}]
  /\ eRet = NoReturn
  /\ eDone = FALSE
  /\ CalcIdle
  /\ OverlapIdle
  /\ GenIdle
  /\ HouseIdle
  /\ MatchIdle
  /\ OrderIdle
  /\ RaceIdle

SeedCall ==
  /\ ~eDone
  /\ eRet' = SeedTasksFromStaticCatalogOrTemplates(eIn)
  /\ eDone' = TRUE
  /\ UNCHANGED <<eIn, calcVars, overlapVars, genVars, houseVars, matchVars,
                 orderVars, raceVars>>

EntryNext == SeedCall

EntrySpec == EntryInit /\ [][EntryNext]_vars

(***************************************************************************)
(* Properties of the recurrence calculator (CalcSpec).                     *)
(***************************************************************************)
RECURSIVE MonthFrom(_, _, _)
MonthFrom(y, m, n) ==
  IF n < DaysInMonth(y, m) THEN <<m, n + 1>>
  ELSE MonthFrom(y, m + 1, n - DaysInMonth(y, m))

\* (date.month, date.day) of a day number
MonthDayOf(date) ==
  MonthFrom(YearOf(date), 1, date - DaysBeforeYear(YearOf(date)))

CalcDone == cDone
CalcSeasonal == ParseBool(cRow.seasonal, FALSE)
CalcAnchorType == StripLower(OrEmpty(cRow.seasonal_anchor_type))
CalcCode == StripLower(OrEmpty(cRow.season_code))
CellIs(val, n) == IsNum(val) /\ val.v = n
CellNonZero(val) == IsNum(val) /\ val.v # 0

\* C7: for every template row and every today, the next_due_date computed
\* by the recurrence calculator is on or after today.
C7_DueOnOrAfterToday == CalcDone => cDue >= cToday

\* a seasonal fixed_date row with month 2 and a day no February has
CalcFebInvalid ==
  /\ CalcSeasonal
  /\ CalcAnchorType = "fixed_date"
  /\ CellIs(cRow.season_anchor_month, 2)
  /\ IsNum(cRow.season_anchor_day)
  /\ cRow.season_anchor_day.v \in {30, 31}

Feb28(y) == MkDate(y, 2, 28)

\* C8: for a seasonal fixed_date template with month 2 and an invalid day,
\* the calculator returns February 28 of today's year when that is on or
\* after today and February 28 of the next year when it has passed.
C8_Feb28OrNextYears ==
  (CalcDone /\ CalcFebInvalid) =>
    cDue = (IF Feb28(YearOf(cToday)) >= cToday
              THEN Feb28(YearOf(cToday))
              ELSE Feb28(YearOf(cToday) + 1))

\* the (month, day) a seasonal row is anchored to, <<0, 0>> when it has none
CalcAnchor ==
  IF CalcSeasonal /\ CalcAnchorType = "fixed_date"
       /\ CellNonZero(cRow.season_anchor_month)
       /\ CellNonZero(cRow.season_anchor_day)
    THEN <<cRow.season_anchor_month.v, cRow.season_anchor_day.v>>
  ELSE IF CalcSeasonal /\ CalcAnchorType = "season_start"
    THEN (CASE CalcCode = "winter" -> <<12, 1>>
            [] CalcCode = "spring" -> <<3, 1>>
            [] CalcCode = "summer" -> <<6, 1>>
            [] CalcCode = "autumn" -> <<9, 1>>
            [] OTHER -> <<0, 0>>)
  ELSE <<0, 0>>

\* the anchor is a date of today's year and, once that date has passed, of
\* the next year too
CalcAnchorValid ==
  LET y == YearOf(cToday)
      m == CalcAnchor[1]
      d == CalcAnchor[2]
  IN /\ DateValid(y, m, d)
     /\ (MkDate(y, m, d) < cToday => DateValid(y + 1, m, d))

\* due is the first day on or after today whose month and day are (m, d):
\* the occurrence before it, 365 or 366 days earlier, is before today
EarliestOccurrence(due, m, d, today) ==
  /\ due >= today
  /\ MonthDayOf(due) = <<m, d>>
  /\ \A gap \in {365, 366} :
       due - gap >= today => MonthDayOf(due - gap) # <<m, d>>

FreqOr(val, d) == IF CellNonZero(val) THEN val.v ELSE d

\* C10: the fallbacks of the recurrence calculator, in order: a seasonal row
\* without a usable anchor gives today + max(1, frequency_days or 365)
\* whatever its start offset; a non-seasonal row with a start offset gives
\* today + max(0, offset) whatever its frequency; a non-seasonal row without
\* one gives today + max(1, frequency_days or 30).
C10_FallbackOrder ==
  CalcDone =>
    IF CalcSeasonal
      THEN (CalcAnchor = <<0, 0>> =>
              cDue = cToday + Max(1, FreqOr(cRow.frequency_days, 365)))
    ELSE IF IsNum(cRow.start_offset_days)
      THEN cDue = cToday + Max(0, cRow.start_offset_days.v)
    ELSE cDue = cToday + Max(1, FreqOr(cRow.frequency_days, 30))

\* a non-seasonal row with both an offset and a frequency, due at the offset
C10_Witness ==
  /\ CalcDone
  /\ ~CalcSeasonal
  /\ CellIs(cRow.start_offset_days, 5)
  /\ CellIs(cRow.frequency_days, 90)
  /\ cDue = cToday + 5

(***************************************************************************)
(* Properties of the overlap resolver (OverlapSpec).                       *)
(***************************************************************************)
GroupOf(row) == Strip(OrEmpty(row.overlap_group))
RankParses(row) == IsNum(row.variant_rank)

\* row a has a lower rank than row b, a rank that does not parse being
\* above every integer
RankBelow(a, b) ==
  /\ RankParses(a)
  /\ (RankParses(b) => a.variant_rank.v < b.variant_rank.v)

\* C6: within an overlap group the survivor has the lowest variant_rank, a
\* missing or unparseable rank counting as infinite: no row of the input
\* has the survivor's group and a lower rank.
C6_LowestRankSurvives ==
  oDone =>
    \A i \in 1..Len(oOut) : \A j \in 1..Len(oRows) :
      (GroupOf(oRows[oOut[i]]) # "" /\ GroupOf(oRows[j]) = GroupOf(oRows[oOut[i]]))
        => ~RankBelow(oRows[j], oRows[oOut[i]])

(***************************************************************************)
(* Properties of the generation pipeline (GenSpec).                        *)
(***************************************************************************)
\* the whitespace-trimmed overlap_group of a row, "" when it has none
TrimmedGroup(row) == Strip(OrEmpty(row.overlap_group))

NoSharedGroup(rows) ==
  \A i, j \in 1..Len(rows) :
    (i < j /\ TrimmedGroup(rows[i]) # "")
      => TrimmedGroup(rows[i]) # TrimmedGroup(rows[j])

\* C5: the list returned by the overlap resolver holds no two rows with the
\* same non-empty trimmed overlap_group, and neither does the list of rows
\* handed to insertion at the end of the pass.
C5_OneSurvivorPerGroup ==
  gDone => /\ NoSharedGroup(gPlan.resolved_rows)
           /\ NoSharedGroup(gPlan.to_insert)

\* C5: a first-seed pass that dropped a row of a shared group and handed
\* the survivor to insertion
C5_Witness ==
  /\ gDone
  /\ gIn.ramp_mode
  /\ ~gPlan.raised
  /\ Len(gPlan.to_insert) < Len(gPlan.filtered)
  /\ \E i \in 1..Len(gPlan.to_insert) :
       TrimmedGroup(gPlan.to_insert[i]) = "gutter_check"

(***************************************************************************)
(* Properties of the household (Spec).                                     *)
(***************************************************************************)
\* the step just taken is a regeneration run
RegenerationStep == last'.op = "regenerate"

Overdue(t) == IsNum(t.next_due_date) /\ t.next_due_date.v < clock

\* C1: after any sequence of regeneration runs, complete_task calls and
\* days, the tasks table holds no two tasks of the same template, that is,
\* no two rows with the same title.
C1_NoDuplicateTemplate ==
  \A t, u \in tasks : t.id # u.id => t.title # u.title

\* C2: a task that is completed before a regeneration run is in the table
\* after it, with every field unchanged, on every path of the clearing step.
C2_CompletedSurvive ==
  [][RegenerationStep => \A t \in tasks : t.is_completed => t \in tasks']_vars

\* C2: a run that cleared by the fallback delete and inserted, with a task
\* completed before it still in the table
C2_Witness ==
  /\ last.op = "regenerate"
  /\ last.clear = "fallback"
  /\ last.result = "ok"
  /\ \E t, u \in tasks : t.is_completed /\ ~u.is_completed /\ u.id > t.id

\* C3: an active task that is overdue before a regeneration run is in the
\* table after it, on every path of the clearing step.
C3_OverdueSurvive ==
  [][RegenerationStep =>
       \A t \in tasks : (Active(t) /\ Overdue(t)) => t \in tasks']_vars

\* C4: a regeneration run that fails after it started (the ramp raises, or
\* every insert attempt fails) leaves the tasks table as it was.
C4_FailedRunChangesNothing ==
  [][(RegenerationStep /\ last'.result \in {"ramp_error", "insert_failed"})
       => tasks' = tasks]_vars

(***************************************************************************)
(* Properties of the requirement matcher (MatchSpec).                      *)
(***************************************************************************)
MatchSegments == IF mIn.cell.k = "req" THEN mIn.cell.segs ELSE <<>>

\* a segment that is not blank and has no '=', or whose key (trimmed, alias
\* resolved) is an allowed key and whose value is not a boolean word
Malformed(seg) ==
  \/ ~seg.eq /\ Strip(seg.key) # ""
  \/ /\ seg.eq
     /\ Canonical(Strip(seg.key)) \in ALLOWED_FEATURE_KEYS
     /\ StripLower(seg.value) \notin TRUE_WORDS \cup FALSE_WORDS

\* a segment key=value with an allowed key and a boolean word
WellFormed(seg) ==
  /\ seg.eq
  /\ Canonical(Strip(seg.key)) \in ALLOWED_FEATURE_KEYS
  /\ StripLower(seg.value) \in TRUE_WORDS \cup FALSE_WORDS

MalformedAt == {i \in DOMAIN MatchSegments : Malformed(MatchSegments[i])}

\* C11: a row whose requirement text has a malformed segment is never kept,
\* whatever the feature set; the parser reports exactly one error for each
\* malformed segment and still records the pair of every well-formed segment.
C11_MalformedExcluded ==
  mDone =>
    /\ Len(mOut.errors) = Cardinality(MalformedAt)
    /\ {mOut.errors[e].seg : e \in DOMAIN mOut.errors} = MalformedAt
    /\ \A i \in DOMAIN MatchSegments :
         WellFormed(MatchSegments[i]) =>
           Canonical(Strip(MatchSegments[i].key)) \in DOMAIN mOut.req
    /\ MalformedAt # {} => ~mOut.kept

\* C11: "has_hvac=true;bogus" against a household with has_hvac: one error,
\* the pair has_hvac=true recorded and matching, and the row excluded.
C11_Witness ==
  /\ mDone
  /\ mIn.cell = Req(<<Seg("has_hvac", "true"), Bare("bogus")>>)
  /\ FeatureOn(mIn.features, "has_hvac")
  /\ Len(mOut.errors) = 1
  /\ mOut.req = ("has_hvac" :> TRUE)
  /\ ~mOut.kept

\* the value the household has for a key, an absent key read as false
HouseholdValue(key) == FeatureOn(mIn.features, key)

OnlyUnknownKeys ==
  /\ MatchSegments # <<>>
  /\ \A i \in DOMAIN MatchSegments :
       /\ MatchSegments[i].eq
       /\ Canonical(Strip(MatchSegments[i].key)) \notin ALLOWED_FEATURE_KEYS

\* C29: a requirement text made only of pairs whose alias-resolved key is
\* outside the allow-list, whatever their values, gives an empty predicate
\* map and no parse error, and the row is kept for every feature set.
C29_UnknownKeysIgnored ==
  (mDone /\ OnlyUnknownKeys) =>
    /\ mOut.req = <<>>
    /\ mOut.errors = <<>>
    /\ mOut.kept

\* C29: "future_key=maybe;has_pool=true" against a household without HVAC
C29_Witness ==
  /\ mDone
  /\ mIn.cell = Req(<<Seg("future_key", "maybe"), Seg("has_pool", "true")>>)
  /\ ~FeatureOn(mIn.features, "has_hvac")
  /\ mOut.req = <<>> /\ mOut.errors = <<>> /\ mOut.kept

(***************************************************************************)
(* Properties of the onboarding ramp, on the generation pipeline (GenSpec).*)
(***************************************************************************)
\* a pass with first_seed set that ended without raising
RampedPass == gDone /\ gIn.ramp_mode /\ ~gPlan.raised

\* start_offset_days of a row the pass hands to the insert
OffsetIs(row, n) == row.start_offset_days = Num(n)
OffsetWithin(row, lo, hi) ==
  HasOffset(row) /\ row.start_offset_days.v >= lo
                 /\ row.start_offset_days.v <= hi

SafetyTasks == {j \in DOMAIN gPlan.to_insert : IsSafety(gPlan.to_insert[j])}

\* C13: after a first-generation pass every safety-critical task has
\* start_offset_days 0, however many there are and whatever per_day_cap is.
C13_SafetyAtDayZero ==
  RampedPass => \A j \in SafetyTasks : OffsetIs(gPlan.to_insert[j], 0)

\* C14: after a first-generation pass of the orchestrator every
\* safety-critical task has start_offset_days of at most 6, whatever the
\* caps, the number of safety-critical tasks and the catalog's offsets are.
C14_SafetyWithinFirstWeek ==
  RampedPass => \A j \in SafetyTasks : OffsetWithin(gPlan.to_insert[j], 0, 6)

\* C14: more safety-critical tasks than seven days of per_day_cap hold, some
\* of them with an offset of 30 in the catalog: the last ones are clamped to
\* day 6.
C14_Witness ==
  /\ RampedPass
  /\ RampConfig(gIn.lookup).per_day_cap = 2
  /\ Cardinality(SafetyTasks) > 14
  /\ \E i \in DOMAIN gIn.rows : OffsetIs(gIn.rows[i], 30)
  /\ Cardinality({j \in SafetyTasks : OffsetIs(gPlan.to_insert[j], 6)}) >= 3

\* a resolved row that is seasonal and due within near_term_days
NearTermSeasonal(row) ==
  /\ IsSeasonal(row)
  /\ DaysOut(row, gIn.today) <= RampConfig(gIn.lookup).near_term_days

\* a first-generation pass with initial_cap 5 over a resolved set without
\* safety-critical and without near-term seasonal tasks
PlainRampedPass ==
  /\ RampedPass
  /\ RampConfig(gIn.lookup).initial_cap = 5
  /\ \A j \in DOMAIN gPlan.resolved_rows :
       /\ ~IsSafety(gPlan.resolved_rows[j])
       /\ ~NearTermSeasonal(gPlan.resolved_rows[j])

FirstWeekTasks ==
  {j \in DOMAIN gPlan.to_insert : OffsetWithin(gPlan.to_insert[j], 0, 6)}

\* C15: in such a pass exactly min(5, number of resolved tasks) tasks end
\* with start_offset_days in [0,6], and every other task with 7 or more.
C15_RampCapRespected ==
  PlainRampedPass =>
    /\ Cardinality(FirstWeekTasks) = Min(5, Len(gPlan.to_insert))
    /\ \A j \in DOMAIN gPlan.to_insert :
         j \notin FirstWeekTasks =>
           /\ HasOffset(gPlan.to_insert[j])
           /\ gPlan.to_insert[j].start_offset_days.v >= 7

\* the household has tasks already, and its onboarding start is not within
\* the last 14 days: it is older, or not recorded, or there is no users row
OutsideRampWindow ==
  /\ tasks # {}
  /\ \/ userRow.res # "found"
     \/ userRow.started.fmt = "none"
     \/ userRow.started.fmt = "naive" /\ clock - userRow.started.day > 14

\* the task was stored with the start_offset_days of a catalog row of its
\* title
KeepsCatalogOffset(t) ==
  \E j \in DOMAIN templates :
    /\ HasTitle(templates[j])
    /\ StripText(templates[j].title.s) = t.title
    /\ t.stagger_offset =
         ParseInt(CatalogRow(templates[j]).start_offset_days, None)

\* C16: a run that is neither the first generation nor within 14 days of the
\* onboarding start leaves the offsets alone: every task it inserts has the
\* start_offset_days its catalog row had.
C16_NoRampOutsideWindow ==
  [][(RegenerationStep /\ OutsideRampWindow)
       => \A t \in tasks' \ tasks : KeepsCatalogOffset(t)]_vars

\* the catalog row a task handed to the insert was made from
CatalogRowOf(j) == gIn.rows[gPlan.resolved[j]]

\* C17: in every pass, with or without the ramp, a task whose catalog row
\* specifies start_offset_days keeps exactly that value.
C17_CatalogOffsetKept ==
  (gDone /\ ~gPlan.raised) =>
    \A j \in DOMAIN gPlan.to_insert :
      HasOffset(CatalogRowOf(j)) =>
        gPlan.to_insert[j].start_offset_days =
          ParseInt(CatalogRowOf(j).start_offset_days, None)

(***************************************************************************)
(* Property of the two passes over one catalog in two orders (OrderSpec).  *)
(***************************************************************************)
\* the resolved tasks of a pass: for each row handed to the insert, the
\* catalog row it was made from, its start_offset_days and its next due date
ResolvedTasks(plan, rows) ==
  {[template |-> rows[plan.resolved[j]],
    start_offset_days |-> plan.to_insert[j].start_offset_days,
    next_due_date |-> ComputeNextDueDate(plan.to_insert[j], dIn.today)]
     : j \in DOMAIN plan.to_insert}

\* C18: the same catalog rows, features and today give the same set of
\* resolved tasks (templates, start_offset_days, next_due_date) whatever the
\* order the rows are supplied in.
C18_OrderIndependent ==
  dRan = {"supplied", "reordered"} =>
    ResolvedTasks(dPlan.supplied, dIn.rows)
      = ResolvedTasks(dPlan.reordered, dIn.reordered)

(***************************************************************************)
(* Property of the generation entry point (EntrySpec).                     *)
(***************************************************************************)
\* the catalog source a call uses
EntrySource ==
  IF eIn.tmpl.res = "rows" /\ eIn.tmpl.rows # <<>> THEN "db"
  ELSE IF eIn.csv.exists THEN "csv"
  ELSE IF MemoryRows(eIn.features, 1) # <<>> THEN "memory" ELSE "none"

\* C19: every call of the entry point returns a diagnostics record with the
\* fields considered, matched, inserted and source, whichever catalog
\* source it used and also when it failed inside.
C19_DiagnosticsReturned ==
  eDone =>
    /\ eRet.type = "dict"
    /\ {"considered", "matched", "inserted", "source"} \subseteq DOMAIN eRet
    /\ eRet.source \in {EntrySource, "error"}

\* the row is seasonal with a fixed_date anchor that is a date of no year
InvalidAnchor(row) ==
  /\ IsSeasonal(row)
  /\ StripLower(OrEmpty(row.seasonal_anchor_type)) = "fixed_date"
  /\ IsNum(row.season_anchor_month) /\ row.season_anchor_month.v # 0
  /\ IsNum(row.season_anchor_day) /\ row.season_anchor_day.v # 0
  /\ ~DateValid(2024, row.season_anchor_month.v, row.season_anchor_day.v)

\* the j-th resolved row becomes a task: the pass hands it to the insert and
\* the insert builds a payload for it
Generated(j) == j \in DOMAIN gPlan.to_insert /\ HasTitle(gPlan.to_insert[j])

\* C20: a template row with an invalid seasonal anchor date (February 30,
\* month 13) produces no resolved task, and every other resolved row of the
\* pass is still generated.
C20_InvalidAnchorDropped ==
  (gDone /\ ~gPlan.raised) =>
    \A j \in DOMAIN gPlan.resolved :
      /\ InvalidAnchor(CatalogRowOf(j)) => ~Generated(j)
      /\ (~InvalidAnchor(CatalogRowOf(j)) /\ HasTitle(CatalogRowOf(j)))
           => Generated(j)


(***************************************************************************)
(* Default enricher (generation pipeline).                                 *)
(***************************************************************************)
\* the catalog wrote a value in the cell
Explicit(val) == ~IsNone(val) /\ CellText(val) # ""

\* the row the j-th filtered row was in the catalog, and what it is after
\* the enricher
FilteredCatalogRow(j) == gIn.rows[gPlan.filtered[j]]
FilteredEnrichedRow(j) == gPlan.store[gPlan.filtered[j]]

\* C21: the enricher changes only fields the catalog left unset: a priority,
\* category, seasonal flag or safety_critical value written in the catalog
\* row is the same after enrichment, for every title.
C21_ExplicitFieldsKept ==
  gDone =>
    \A j \in DOMAIN gPlan.filtered :
      /\ Explicit(FilteredCatalogRow(j).priority)
           => FilteredEnrichedRow(j).priority = FilteredCatalogRow(j).priority
      /\ Explicit(FilteredCatalogRow(j).category)
           => FilteredEnrichedRow(j).category = FilteredCatalogRow(j).category
      /\ Explicit(FilteredCatalogRow(j).seasonal)
           => FilteredEnrichedRow(j).seasonal = FilteredCatalogRow(j).seasonal
      /\ Explicit(FilteredCatalogRow(j).safety_critical)
           => FilteredEnrichedRow(j).safety_critical
                = FilteredCatalogRow(j).safety_critical

\* a task of one year or more that is not safety-critical
AnnualTasks ==
  {j \in DOMAIN gPlan.to_insert :
     /\ FreqDays(gPlan.to_insert[j]) >= 365
     /\ ~IsSafety(gPlan.to_insert[j])}

\* C22: after a generation pass in ramp mode every task with frequency_days
\* of 365 or more that is not safety-critical has start_offset_days of at
\* least 90, whether the ramp put it in the immediate or the deferred list
\* and whether it is seasonal or not.
C22_AnnualDeferred ==
  RampedPass =>
    \A j \in AnnualTasks :
      /\ HasOffset(gPlan.to_insert[j])
      /\ gPlan.to_insert[j].start_offset_days.v >= 90

\* C22: a yearly seasonal task due within near_term_days, which the ramp
\* pulls into the immediate list, next to a plain two-year task
C22_Witness ==
  /\ RampedPass
  /\ \E j \in AnnualTasks :
       /\ NearTermSeasonal(gPlan.resolved_rows[j])
       /\ FreqDays(gPlan.to_insert[j]) = 365
       /\ OffsetIs(gPlan.to_insert[j], 90)
  /\ \E j \in AnnualTasks :
       /\ ~IsSeasonal(gPlan.to_insert[j])
       /\ OffsetIs(gPlan.to_insert[j], 90)

\* the ramp's configuration, its scored order, its two lists at the end of
\* the fill step and what it returns ([raised, store], before the safety
\* net), for the resolved rows of the pass; the lists name the rows by their
\* position in the resolved list
RampCaps == RampConfig(gIn.lookup)
ResolvedRefs == [j \in DOMAIN gPlan.resolved_rows |-> j]
RampOrder ==
  ScoredOrder(gPlan.resolved_rows, ResolvedRefs, gIn.today,
              RampCaps.near_term_days)
RampEnd == RampLists(gPlan.resolved_rows, RampOrder, gIn.today, RampCaps)
RampOut == RampStagger(RampEnd, RampCaps)

\* a task of two years or more that is not safety-critical
MultiYearTasks ==
  {j \in DOMAIN gPlan.to_insert :
     /\ FreqDays(gPlan.to_insert[j]) >= 730
     /\ ~IsSafety(gPlan.to_insert[j])}

MultiYearDeferredIn(later) ==
  \A j \in MultiYearTasks :
    /\ j \in Range(later)
    /\ HasOffset(gPlan.to_insert[j])
    /\ gPlan.to_insert[j].start_offset_days.v >= 180

\* C23: after a first-generation pass every task with frequency_days of 730
\* or more that is not safety-critical is in the deferred list and has
\* start_offset_days of at least 180, seasonal or not.
C23_MultiYearDeferred == RampedPass => MultiYearDeferredIn(RampEnd.later)

\* the rows of a list keep to the first week and to the cap of each day
DailyCapRespectedIn(immediate, store, per_day_cap) ==
  /\ \A j \in Range(immediate) : OffsetWithin(store[j], 0, 6)
  /\ \A d \in 0..6 :
       Cardinality({j \in Range(immediate) : OffsetIs(store[j], d)})
         <= per_day_cap

\* C24: after the ramp's first-week distribution every task of the immediate
\* list has start_offset_days in 0..6 and, for each day d of 0..6, at most
\* per_day_cap immediate tasks have offset d, whatever the size of the
\* immediate list.
C24_DailyCapRespected ==
  (gDone /\ gIn.ramp_mode /\ ~RampOut.raised) =>
    DailyCapRespectedIn(RampEnd.immediate, RampOut.store, RampCaps.per_day_cap)

\* the safety-critical and the near-term seasonal tasks of the pass: the ones
\* the ramp places before the fill
PlacedBeforeFill ==
  {j \in DOMAIN gPlan.resolved_rows :
     \/ IsSafety(gPlan.resolved_rows[j])
     \/ NearTermSeasonal(gPlan.resolved_rows[j])}

\* a task of a year or more that is not safety-critical
LongInterval(j) ==
  FreqDays(gPlan.resolved_rows[j]) >= 365 /\ ~IsSafety(gPlan.resolved_rows[j])

\* added are the tasks the fill step put in the immediate list
FillBoundedIn(immediate, added, placed, initial_cap) ==
  /\ Len(immediate) <= Max(initial_cap, Cardinality(placed))
  /\ added # {} => Len(immediate) <= initial_cap
  /\ \A j \in added : ~LongInterval(j)

\* C25: at the end of the fill step the immediate list holds at most
\* max(initial_cap, S) tasks, S being the number of safety-critical and
\* near-term seasonal tasks placed before the fill; the fill adds a task only
\* while the list is shorter than initial_cap, and on first generation it
\* never adds a task of 365 days or more that is not safety-critical.
C25_FillBounded ==
  (gDone /\ gIn.ramp_mode) =>
    FillBoundedIn(RampEnd.immediate, Range(RampEnd.immediate) \ PlacedBeforeFill,
                  PlacedBeforeFill, RampCaps.initial_cap)

FillPassedOver(end, initial_cap) ==
  /\ Range(end.immediate) \ PlacedBeforeFill # {}
  /\ Len(end.immediate) < initial_cap
  /\ \E j \in Range(end.later) : LongInterval(j)

\* C25: the fill added tasks, left slots unused and passed over a task of a
\* year or more, which is still in the later list
C25_Witness ==
  gDone /\ gIn.ramp_mode /\ FillPassedOver(RampEnd, RampCaps.initial_cap)

\* the deferred tasks the stagger step gives a week: the ones without an
\* offset when the step starts, by their place (from 0) in the later list
Staggered(end) ==
  {k \in 0..(Len(end.later) - 1) : ~HasOffset(end.store[end.later[k + 1]])}

WeekSizes(end, staggered, store, stagger_weeks) ==
  [w \in 0..(stagger_weeks - 1) |->
     Cardinality({k \in staggered : OffsetIs(store[end.later[k + 1]], 7 * w)})]

RoundRobinIn(end, staggered, store, stagger_weeks, sizes) ==
  /\ \A k \in staggered :
       OffsetIs(store[end.later[k + 1]], 7 * (k % stagger_weeks))
  /\ \A w1, w2 \in DOMAIN sizes : sizes[w1] <= sizes[w2] + 1

RoundRobinOf(end, staggered, store, stagger_weeks) ==
  RoundRobinIn(end, staggered, store, stagger_weeks,
               WeekSizes(end, staggered, store, stagger_weeks))

\* C26: the deferred tasks are spread round-robin over the stagger weeks: the
\* k-th deferred task (k from 0) that has no offset yet gets start_offset_days
\* 7 * (k mod stagger_weeks), so that the numbers of tasks of any two weeks
\* differ by at most one.
C26_RoundRobinStagger ==
  (gDone /\ gIn.ramp_mode /\ ~RampOut.raised) =>
    RoundRobinOf(RampEnd, Staggered(RampEnd), RampOut.store,
                 RampCaps.stagger_weeks)

\* the users lookup returns nothing for the household: no row, or a row
\* whose persona and time budget are null
LookupNothing ==
  \/ gIn.lookup.res = "missing"
  \/ /\ gIn.lookup.res = "found"
     /\ IsNone(gIn.lookup.persona)
     /\ IsNone(gIn.lookup.budget)

DefaultCaps(cfg) ==
  /\ cfg.initial_cap = RAMP_SETTINGS.initial_cap
  /\ cfg.stagger_weeks = RAMP_SETTINGS.stagger_weeks
  /\ cfg.near_term_days = RAMP_SETTINGS.near_term_days

\* C27: when the persona and time-budget lookup returns nothing for the
\* household, the ramp runs to completion, without raising, with per_day_cap
\* 3 and the default initial_cap, stagger_weeks and near_term_days.
C27_LookupNothingDefaults ==
  (gDone /\ gIn.ramp_mode /\ LookupNothing) =>
    /\ ~gPlan.raised
    /\ DefaultCaps(RampCaps)
    /\ RampEnd.immediate # <<>> => RampCaps.bound /\ RampCaps.per_day_cap = 3

(***************************************************************************)
(* Properties of overlapping requests of a household (RaceSpec).           *)
(***************************************************************************)
\* the step just taken is a step of a generation run
RunStep == \E r \in Runs : runs'[r].pc # runs[r].pc

ResolvedForHousehold ==
  GeneratePlan(CatalogRows(templates), FeatureFlags(homeFeatures), clock,
               FALSE, [res |-> "error"]).resolved_rows
WinnerTitles ==
  {StripText(ResolvedForHousehold[j].title.s) :
     j \in {i \in DOMAIN ResolvedForHousehold :
              StripLower(OrEmpty(ResolvedForHousehold[i].overlap_group)) # ""}}

StoredIds == {t.id : t \in tasks}

\* run r, classified first generation, inserts its tasks while the tasks of
\* run o, classified first generation too, are in the table
InsertsNextTo(r, o) ==
  /\ r # o
  /\ runs[r].pc = "cleared" /\ runs'[r].pc = "done"
  /\ runs'[r].ids # {}
  /\ runs[r].first_seed /\ runs[o].first_seed
  /\ runs[o].ids # {} /\ runs[o].ids \subseteq StoredIds

\* every task of ids_r has a task of ids_o with its title, and an overlap
\* group has two winners
DuplicatedIn(stored, ids_r, ids_o) ==
  /\ \A t \in stored :
       t.id \in ids_r => \E u \in stored : u.id \in ids_o /\ u.title = t.title
  /\ \E title \in WinnerTitles :
       Cardinality({t \in stored : t.title = title}) >= 2

\* C28: generation runs are not serialized: when two runs of a household have
\* both read the tasks table empty and cleared before either inserts, both
\* are first generation and both insert what they resolved, after which the
\* household holds two tasks of the same template and two winners of the same
\* overlap group.
C28_RacingRunsDuplicate ==
  [][\A r, o \in Runs :
       InsertsNextTo(r, o) => DuplicatedIn(tasks', runs'[r].ids, runs[o].ids)]_vars

\* C28: both runs are done, both read the table empty, both cleared by the
\* selective deletes and inserted, and every task of one has a task of the
\* other with its title
C28_Witness ==
  /\ \A r \in Runs :
       /\ runs[r].pc = "done" /\ runs[r].first_seed
       /\ runs[r].clear = "selective"
       /\ runs[r].ids # {} /\ runs[r].ids \subseteq StoredIds
  /\ DuplicatedIn(tasks, runs[1].ids, runs[2].ids)
  /\ \A t \in tasks : Cardinality({u \in tasks : u.title = t.title}) = 2

====
